---- MODULE Spec2Model ----
(***************************************************************************)
(* A model of urlbar-llm.uc.js (src/urlbar-llm.uc.js, the final iteration  *)
(* that starts at line 1118): the retrying network layer fetchWithRetry,   *)
(* the incremental stream decoder of streamResponse, the turn              *)
(* orchestration of sendToLLM, the web search searchWeb with its cache,    *)
(* the result parser parseDuckDuckGoHTML and the page fetches of           *)
(* fetchSearchResultsContent.                                              *)
(*                                                                         *)
(* Texts are modelled as sequences of tokens.  An error message or a       *)
(* response body is a sequence of lower-cased words, and a regular         *)
(* expression that is an alternation of words is the set of those words.   *)
(***************************************************************************)
EXTENDS Integers, Sequences, FiniteSets, TLC

VARIABLES
    \* ---- fetchWithRetry (one call) ----
    frPc,            \* where the call is suspended, or how it ended
    attempt,         \* the loop variable of fetchWithRetry
    lastError,       \* the local lastError
    frResponse,      \* the response whose body is being read
    pendingErr,      \* the err of the catch block while it sleeps
    timerMs,         \* the armed timer of sleepWithAbort (0: none)
    signalAborted,   \* signal.aborted
    frResult,        \* what the call returned or threw
    \* observations of the call
    attemptsMade,    \* number of fetch() calls issued
    delaysSlept,     \* the delays handed to sleepWithAbort, in order
    frLog,           \* the outcome of every attempt, in order
    abortedAt,       \* frPc when the signal fired ("never" before)
    attemptsAtAbort, \* attemptsMade when the signal fired
    \* ---- streamResponse (one call, from the first reader.read()) ----
    stPc,            \* "reading", or how the call ended
    isOllama,        \* currentProvider.name === "Ollama"
    payload,         \* the bytes the server sends, as tokens
    pos,             \* how many of them reader.read() has delivered
    buffer,          \* the local buffer
    accumulatedText, \* the local accumulatedText
    renderPending,   \* renderPending (renderTimeoutId !== null)
    rendered,        \* the text last rendered into titleElement
    finalRenders,    \* number of non-debounced renders
    deltas,          \* the text deltas in the order they were decoded
    heldBack,        \* a read has left an incomplete line in buffer
    \* ---- module-level state ----
    currentAssistantMessage,
    isLLMMode,
    currentProvider,      \* a key of CONFIG.providers, or "null"
    providerAttr,         \* urlbar attribute llm-provider, or "null"
    webSearchEnabled,     \* preference extension.urlbar-llm.web-search-enabled
    abortController,      \* the controller of the latest turn (0: null)
    aborted,              \* aborted[c]: the signal of controller c has fired
    conversationHistory,
    currentSearchSources,
    currentSessionId,     \* 0: null
    showingHistoryList,   \* isShowingHistoryList()
    listSessions,         \* the sessions array the shown history list was built from
    store,                \* the IndexedDB object store "sessions", by id
    nextSessionId,        \* stands for the fresh `${now}-${random}` ids
    \* ---- the calls of sendToLLM (turns), numbered in the order they start ----
    turns,                \* how many turns have started
    turn,                 \* turn[t]: the locals of turn t and where it is suspended
    obs,                  \* obs[t]: what turn t has done so far
    \* ---- searchWeb and its cache ----
    searchCache,          \* the Map searchCache, in insertion order
    now,                  \* Date.now()
    calls,                \* how many calls of searchWeb have started
    call,                 \* call[c]: the locals of suspended call c
    lastReturn,           \* what the latest call to end has done
    cacheOps,             \* the sets and the hits of searchCache, in order
    evicted,              \* the keys handed to searchCache.delete, in order
    maxCacheSize,         \* LIMITS.MAX_CACHE_SIZE, at the scale the cache is run at
    \* ---- parseDuckDuckGoHTML (one call) ----
    pdPc,                 \* "called" or "returned"
    pdParsed,             \* what parseResultElement gives for the elements, in document order
    pdLimit,              \* the parameter limit
    pdReturned,           \* the list returned
    \* ---- fetchSearchResultsContent (one call) ----
    faPc,                 \* "racing", or how the call ended
    faSearchResults,      \* the parameter searchResults
    faMaxResults,         \* the parameter maxResults
    faSettled,            \* faSettled[i]: how fetch promise i has settled so far
    faAwaits,             \* faAwaits[i]: the fetch that pending promise i awaits
    faReturned,           \* the list returned
    \* ---- observation of putSession ----
    lastPut,              \* the call of putSession made by the last step, if any
    deletions,            \* the ids handed to deleteSessionById, in order
    boundId               \* the id that the first save of the live conversation wrote,
                          \* or that it was loaded from (0: neither yet)

retryVars == <<frPc, attempt, lastError, frResponse, pendingErr, timerMs,
               signalAborted, frResult, attemptsMade, delaysSlept, frLog,
               abortedAt, attemptsAtAbort>>

streamVars == <<stPc, isOllama, payload, pos, buffer, accumulatedText,
                renderPending, rendered, finalRenders, deltas, heldBack>>

turnVars == <<isLLMMode, currentProvider, providerAttr, webSearchEnabled,
              abortController, aborted, conversationHistory, currentSearchSources,
              currentSessionId, showingHistoryList, listSessions, store,
              nextSessionId, turns, turn, obs>>

globalVars == <<currentAssistantMessage, turnVars>>

\* turnVars without the preference.
hostVars == <<isLLMMode, currentProvider, providerAttr, abortController,
              aborted, conversationHistory, currentSearchSources,
              currentSessionId, showingHistoryList, listSessions, store,
              nextSessionId, turns, turn, obs>>

cacheVars == <<searchCache, now, calls, call, lastReturn, cacheOps,
               evicted, maxCacheSize>>

parseVars == <<pdPc, pdParsed, pdLimit, pdReturned>>

fetchAllVars == <<faPc, faSearchResults, faMaxResults, faSettled, faAwaits,
                  faReturned>>

webVars == <<cacheVars, parseVars, fetchAllVars>>

historyVars == <<lastPut, deletions, boundId>>

vars == <<retryVars, streamVars, globalVars, webVars, historyVars>>

Min(a, b) == IF a < b THEN a ELSE b

RECURSIVE Pow2(_)
Pow2(n) == IF n = 0 THEN 1 ELSE 2 * Pow2(n - 1)

Last(s) == s[Len(s)]

(***************************************************************************)
(* Module-level state and the locals of a call of sendToLLM                *)
(***************************************************************************)
MaxTurns == 2
MaxDeltas == 2

TurnIds == 1..MaxTurns

\* The key of CONFIG.providers the model activates.
ProviderKeys == {"openai"}

\* currentSearchSources: the list built from the pages fetched by turn
\* owner, n entries long; [] is owner 0 with no entry.
NoSources == [owner |-> 0, n |-> 0]

NoMessage == [role |-> "none", content |-> <<>>, sources |-> NoSources]
NoTurnError == [name |-> "none", status |-> 0]

\* The locals of a call of sendToLLM that has not started.
UnbornTurn ==
    [pc |-> "unborn", awaitSignal |-> 0, resolved |-> FALSE,
     nResults |-> 0, acc |-> <<>>, nDeltas |-> 0]

NothingObserved ==
    [messagesToSend |-> <<>>, chatRequested |-> FALSE, appended |-> NoMessage,
     upserted |-> FALSE, error |-> NoTurnError, cancelledIn |-> "none",
     cancelCause |-> "none", readAborted |-> FALSE,
     classifierFailed |-> FALSE, search |-> "none",
     startConv |-> <<>>, providerKey |-> "null", verdict |-> "none",
     classifierAsked |-> FALSE]

\* No call of putSession: what lastPut holds after a step that makes none.
NoPut == [called |-> FALSE, session |-> <<>>, before |-> <<>>]

\* Module load: lines 1188-1228.
ModuleLoaded ==
    /\ lastPut = NoPut
    /\ deletions = <<>>
    /\ boundId = 0
    /\ isLLMMode = FALSE
    /\ currentProvider = "null"
    /\ providerAttr = "null"
    /\ abortController = 0
    /\ aborted = [c \in TurnIds |-> FALSE]
    /\ conversationHistory = <<>>
    /\ currentSearchSources = NoSources
    /\ currentSessionId = 0
    /\ showingHistoryList = FALSE
    /\ listSessions = <<>>
    /\ store = <<>>
    /\ nextSessionId = 1
    /\ turns = 0
    /\ turn = [t \in TurnIds |-> UnbornTurn]
    /\ obs = [t \in TurnIds |-> NothingObserved]

(***************************************************************************)
(* searchWeb and the search cache (lines 2592-2650)                        *)
(***************************************************************************)
CACHE_TTL == 1800000
MAX_SEARCH_RESULTS == 5
MAX_FETCH_RESULTS == 3

\* LIMITS.MAX_CACHE_SIZE is 50 in the source.  The model runs the cache at a
\* smaller capacity, with one query more than the cache can hold and enough
\* calls of searchWeb to fill it, overflow it and hit it in between.
CacheCapacity == 2
MaxInFlight == 2
MaxCalls == maxCacheSize + 2
Queries == 1..(maxCacheSize + 1)

\* The values Date.now() takes: the first instant, the next, and one TTL
\* after the first.
Instants == {0, 1, CACHE_TTL}

\* The providerKey arguments of searchWeb.
SearchProviderKeys == {"openai", "ollama"}

\* A result list is known by the key it was fetched for, the instant it was
\* fetched at and its length; null has none of these.
NoResults == [for |-> <<>>, at |-> -1, n |-> 0]
ResultsOf(key, t, limit) == [for |-> key, at |-> t, n |-> limit]

\* What searchCache.get gives for a key the Map does not hold.
NoEntry == [results |-> NoResults, timestamp |-> -1]

\* What searchOllamaWeb and searchDuckDuckGoDirect can end with: both give
\* null or a non-empty list, and the executor of the second can throw.
NativeOutcomes == {"null", "results"}
ScrapeOutcomes == {"null", "results", "throws"}

\* const cacheKey = `${query}:${limit}`;
CacheKeyOf(query, limit) == <<query, limit>>

\* Map.prototype.has, get, set, delete and the first key of keys().
MapHas(map, key) == \E i \in DOMAIN map : map[i].key = key

MapGet(map, key) ==
    IF MapHas(map, key)
    THEN LET i == CHOOSE j \in DOMAIN map : map[j].key = key
         IN  [results |-> map[i].results, timestamp |-> map[i].timestamp]
    ELSE NoEntry

MapSet(map, key, value) ==
    IF MapHas(map, key)
    THEN [i \in DOMAIN map |->
            IF map[i].key = key
            THEN [key |-> key, results |-> value.results,
                  timestamp |-> value.timestamp]
            ELSE map[i]]
    ELSE Append(map, [key |-> key, results |-> value.results,
                      timestamp |-> value.timestamp])

MapDelete(map, key) == SelectSeq(map, LAMBDA e : e.key # key)

NewestKey(map) == map[Len(map)].key

\* searchCache.keys().next().value
OldestKey(map) == map[1].key

NeverFull(map) == FALSE

\* searchCache.size >= LIMITS.MAX_CACHE_SIZE
CacheIsFull(map) == Len(map) >= maxCacheSize

\* cacheSet without its searchCache.set
StoresNothing(map, key, value) == map

\* cacheSet(key, value)
cacheSet(map, key, value) ==
    IF CacheIsFull(map)
    THEN MapSet(MapDelete(map, OldestKey(map)), key, value)
    ELSE MapSet(map, key, value)

FreshAtOrBelowTTL(cached, t) ==
    cached # NoEntry /\ t - cached.timestamp <= CACHE_TTL

\* cached && Date.now() - cached.timestamp < LIMITS.CACHE_TTL
IsFresh(cached, t) ==
    cached # NoEntry /\ t - cached.timestamp < CACHE_TTL

\* providerKey === 'ollama' && hasOllamaWebSearchKey()
useOllamaSearch(providerKey, hasKey) == providerKey = "ollama" /\ hasKey

\* The calls of searchWeb that are suspended, and the locals of one; sawFresh
\* records whether the cache held an entry younger than the TTL for the key
\* when the call started.
CallSlots == 1..MaxInFlight

IdleCall ==
    [pc |-> "idle", cacheKey |-> <<>>, limit |-> 0, requests |-> 0,
     sawFresh |-> FALSE]

\* What the latest call of searchWeb to end has done: the preference when it
\* started, the network requests it issued, and how and when it ended; of a
\* call that ended without a request, also the entry of its key and the
\* instant when it started.
NoReturn ==
    [cacheKey |-> <<>>, enabled |-> FALSE, seen |-> NoEntry, seenAt |-> 0,
     requests |-> 0, how |-> "none", returned |-> NoResults, at |-> 0]

CacheAtRest ==
    /\ searchCache = <<>>
    /\ now = 0
    /\ calls = 0
    /\ call = [c \in CallSlots |-> IdleCall]
    /\ lastReturn = NoReturn
    /\ cacheOps = <<>>
    /\ evicted = <<>>
    /\ maxCacheSize = CacheCapacity

\* What an ended call leaves in lastReturn.  A call that has issued a request
\* was started with the preference on.
Ended(cl, how, results) ==
    [cacheKey |-> cl.cacheKey, enabled |-> TRUE, seen |-> NoEntry,
     seenAt |-> 0, requests |-> cl.requests, how |-> how,
     returned |-> results, at |-> now]

SearchWebCatchRethrows(cl) == Ended(cl, "threw", NoResults)

\* catch (error) { ...; return null; }
SearchWebCatch(cl) == Ended(cl, "returned", NoResults)

\* The locals of a call that has found no fresh entry and issues its first
\* request.
StartedCall(key, limit, native) ==
    [IdleCall EXCEPT !.pc = IF native THEN "native" ELSE "scrape",
                     !.cacheKey = key, !.limit = limit, !.requests = 1]

\* searchOllamaWeb gave nothing: const results = await searchDuckDuckGoDirect
AfterNativeFailure(cl) ==
    [cl EXCEPT !.pc = "scrape", !.requests = @ + 1]

\* searchWeb once the request of cl has given a non-empty list.
FoundEnd(cl) ==
    Ended(cl, "returned", ResultsOf(cl.cacheKey, now, cl.limit))

\* searchWeb once searchDuckDuckGoDirect has settled.
ScrapeEnd(cl, outcome) ==
    CASE outcome = "results" -> FoundEnd(cl)
      [] outcome = "null" -> Ended(cl, "returned", NoResults)
      [] OTHER -> SearchWebCatch(cl)

\* A call of searchWeb that finds no fresh entry, from its start to its end.
SearchWebEnd(query, limit, native, nativeOutcome, scrapeOutcome) ==
    LET started == StartedCall(CacheKeyOf(query, limit), limit, native)
    IN  IF native /\ nativeOutcome = "results"
        THEN FoundEnd(started)
        ELSE ScrapeEnd(IF native THEN AfterNativeFailure(started) ELSE started,
                       scrapeOutcome)

\* The keys of map that after no longer holds, in the order of map.
KeysLost(map, after) ==
    LET lost == SelectSeq(map, LAMBDA e : ~MapHas(after, e.key))
    IN  [i \in DOMAIN lost |-> lost[i].key]

\* cacheSet(cacheKey, { results, timestamp: Date.now() }); return results;
CacheAndReturn(c) ==
    LET key == call[c].cacheKey
        ended == FoundEnd(call[c])
    IN  /\ searchCache' = cacheSet(searchCache, key,
                                   [results |-> ended.returned,
                                    timestamp |-> now])
        /\ cacheOps' = Append(cacheOps, [op |-> "set", key |-> key])
        /\ evicted' = evicted \o KeysLost(searchCache, searchCache')
        /\ lastReturn' = ended
        /\ call' = [call EXCEPT ![c] = IdleCall]

\* searchWeb(query, limit, providerKey) up to its first await or return;
\* hasKey is what hasOllamaWebSearchKey() gives.
SearchWebCalled(c, query, limit, providerKey, hasKey) ==
    LET key == CacheKeyOf(query, limit)
        cached == MapGet(searchCache, key)
        atOnce == [NoReturn EXCEPT !.cacheKey = key,
                                   !.enabled = webSearchEnabled,
                                   !.seen = cached, !.seenAt = now,
                                   !.how = "returned", !.at = now]
    IN  /\ calls < MaxCalls
        /\ call[c].pc = "idle"
        /\ \A d \in CallSlots : d < c => call[d].pc # "idle"
        /\ calls' = calls + 1
        /\ IF ~webSearchEnabled
           THEN /\ lastReturn' = atOnce
                /\ UNCHANGED <<call, cacheOps>>
           ELSE IF IsFresh(cached, now)
           THEN /\ lastReturn' = [atOnce EXCEPT !.returned = cached.results]
                /\ cacheOps' = Append(cacheOps, [op |-> "hit", key |-> key])
                /\ UNCHANGED call
           ELSE /\ call' = [call EXCEPT ![c] =
                              [StartedCall(key, limit,
                                           useOllamaSearch(providerKey, hasKey))
                                 EXCEPT !.sawFresh =
                                    /\ cached # NoEntry
                                    /\ now - cached.timestamp < CACHE_TTL]]
                /\ UNCHANGED <<lastReturn, cacheOps>>
        /\ UNCHANGED <<searchCache, now, evicted, maxCacheSize,
                       webSearchEnabled>>

\* searchOllamaWeb settles.
NativeReturns(c, outcome) ==
    /\ call[c].pc = "native"
    /\ IF outcome = "results"
       THEN CacheAndReturn(c)
       ELSE /\ call' = [call EXCEPT ![c] = AfterNativeFailure(@)]
            /\ UNCHANGED <<searchCache, lastReturn, cacheOps, evicted>>
    /\ UNCHANGED <<now, calls, maxCacheSize, webSearchEnabled>>

\* searchDuckDuckGoDirect settles.
ScrapeReturns(c, outcome) ==
    /\ call[c].pc = "scrape"
    /\ IF outcome = "results"
       THEN CacheAndReturn(c)
       ELSE /\ lastReturn' = ScrapeEnd(call[c], outcome)
            /\ call' = [call EXCEPT ![c] = IdleCall]
            /\ UNCHANGED <<searchCache, cacheOps, evicted>>
    /\ UNCHANGED <<now, calls, maxCacheSize, webSearchEnabled>>

\* Time passes.
ClockAdvances(t) ==
    /\ t > now
    /\ now' = t
    /\ UNCHANGED <<searchCache, calls, call, lastReturn, cacheOps, evicted,
                   maxCacheSize,
                   webSearchEnabled>>

\* The preference extension.urlbar-llm.web-search-enabled is changed.
SetWebSearchPref(b) ==
    /\ webSearchEnabled # b
    /\ webSearchEnabled' = b
    /\ UNCHANGED cacheVars

(***************************************************************************)
(* parseDuckDuckGoHTML (lines 2840-2911)                                   *)
(*                                                                         *)
(* The document is known by what parseResultElement gives for the elements *)
(* the first successful selector matches, in document order: null, or a    *)
(* result with its URL and the length of its snippet.                      *)
(***************************************************************************)
MaxElements == 3
MaxLimit == 2
MaxSnippetLength == 2

Urls == {"a", "b", "c"}
NoElement == [url |-> "none", snippet |-> 0]
Elements == {NoElement} \cup [url : Urls, snippet : 1..MaxSnippetLength]

RECURSIVE SeqsUpTo(_, _)
SeqsUpTo(S, n) ==
    IF n = 0 THEN {<<>>}
    ELSE LET shorter == SeqsUpTo(S, n - 1)
         IN  shorter \cup {Append(s, x) : s \in shorter, x \in S}

\* for (const el of elements) { if (results.length >= limit) break; ... }
RECURSIVE CollectResults(_, _, _, _)
CollectResults(elements, i, results, limit) ==
    IF i > Len(elements) \/ Len(results) >= limit
    THEN results
    ELSE LET result == elements[i]
             isNew == \A j \in DOMAIN results : results[j].url # result.url
         IN  IF result # NoElement /\ isNew
             THEN CollectResults(elements, i + 1,
                                 Append(results,
                                        [url |-> result.url,
                                         snippet |-> result.snippet,
                                         index |-> Len(results) + 1]),
                                 limit)
             ELSE CollectResults(elements, i + 1, results, limit)

\* Array.prototype.sort is stable: a result goes behind every result whose
\* snippet is at least as long.
InsertBySnippet(sorted, r) ==
    LET before == SelectSeq(sorted, LAMBDA x : x.snippet >= r.snippet)
        after == SelectSeq(sorted, LAMBDA x : x.snippet < r.snippet)
    IN  before \o <<r>> \o after

\* results.sort((a, b) => (b.snippet?.length || 0) - (a.snippet?.length || 0))
RECURSIVE SortBySnippet(_)
SortBySnippet(results) ==
    IF results = <<>> THEN <<>>
    ELSE InsertBySnippet(SortBySnippet(SubSeq(results, 1, Len(results) - 1)),
                         Last(results))

\* array.slice(0, n)
Slice(s, n) == SubSeq(s, 1, Min(n, Len(s)))

parseDuckDuckGoHTML(elements, limit) ==
    Slice(SortBySnippet(CollectResults(elements, 1, <<>>, limit)), limit)

ParseAtRest ==
    /\ pdPc = "idle"
    /\ pdParsed = <<>>
    /\ pdLimit = 0
    /\ pdReturned = <<>>

ParseReturns ==
    /\ pdPc = "called"
    /\ pdPc' = "returned"
    /\ pdReturned' = parseDuckDuckGoHTML(pdParsed, pdLimit)
    /\ UNCHANGED <<pdParsed, pdLimit>>

(***************************************************************************)
(* fetchSearchResultsContent (lines 3192-3246)                             *)
(*                                                                         *)
(* fetchPageContent and fetchPageContentOllama catch every error and have  *)
(* their own timeouts, so a fetch promise is pending or fulfilled: with    *)
(* the content of the page, or with the snippet when the page failed or    *)
(* timed out.                                                              *)
(***************************************************************************)
\* searchWeb returns at most limit results, and never an empty list.
SearchResultLists ==
    {[i \in 1..n |-> [url |-> i]] : n \in 1..MAX_SEARCH_RESULTS}

PageOutcomes == {"content", "failed", "timedOut"}

\* What fetchPageContentOllama returns: the content of the page, or null
\* (no key, an HTTP error, a short content, a failed or timed-out request).
OllamaFetchOutcomes == {"content", "null"}

\* const useOllamaFetch = providerKey === 'ollama' && hasOllamaWebSearchKey()
useOllamaFetch(providerKey, hasKey) == providerKey = "ollama" /\ hasKey

NotSliced(searchResults, maxResults) == searchResults

\* searchResults.slice(0, maxResults)
Sliced(searchResults, maxResults) == Slice(searchResults, maxResults)

\* { ...result, content: content || result.snippet, index: index + 1 }
WithContent(result, index, outcome) ==
    [url |-> result.url,
     content |-> IF outcome = "content" THEN "page" ELSE "snippet",
     index |-> index]

\* .map((r, i) => ({ ...r, content: r.snippet, index: i + 1 }))
WithSnippets(results) ==
    [i \in DOMAIN results |-> WithContent(results[i], i, "failed")]

FetchAllAtRest ==
    /\ faPc = "idle"
    /\ faSearchResults = <<>>
    /\ faMaxResults = 0
    /\ faSettled = <<>>
    /\ faAwaits = <<>>
    /\ faReturned = <<>>

\* The call up to its await: one fetch promise for each result of the
\* slice, suspended at fetchPageContentOllama with Ollama web fetch and at
\* fetchPageContent without.
FetchAllCalled(searchResults, maxResults, providerKey, hasKey) ==
    /\ faPc = "racing"
    /\ faSearchResults = searchResults
    /\ faMaxResults = maxResults
    /\ faSettled = [i \in DOMAIN Sliced(searchResults, maxResults) |-> "pending"]
    /\ faAwaits = [i \in DOMAIN Sliced(searchResults, maxResults) |->
                      IF useOllamaFetch(providerKey, hasKey)
                      THEN "ollama" ELSE "local"]
    /\ faReturned = <<>>

\* fetchPageContentOllama returns in fetch promise i: the promise is
\* fulfilled with the content, or goes on to fetchPageContent (!content).
OllamaFetchReturns(i, outcome) ==
    /\ faPc = "racing"
    /\ i \in DOMAIN faSettled
    /\ faSettled[i] = "pending"
    /\ faAwaits[i] = "ollama"
    /\ IF outcome = "content"
       THEN /\ faSettled' = [faSettled EXCEPT ![i] = "content"]
            /\ faAwaits' = [faAwaits EXCEPT ![i] = "none"]
       ELSE /\ faAwaits' = [faAwaits EXCEPT ![i] = "local"]
            /\ UNCHANGED faSettled
    /\ UNCHANGED <<faPc, faSearchResults, faMaxResults, faReturned>>

\* fetchPageContent returns in fetch promise i: the promise is fulfilled.
PageSettles(i, outcome) ==
    /\ faPc = "racing"
    /\ i \in DOMAIN faSettled
    /\ faSettled[i] = "pending"
    /\ faAwaits[i] = "local"
    /\ faSettled' = [faSettled EXCEPT ![i] = outcome]
    /\ faAwaits' = [faAwaits EXCEPT ![i] = "none"]
    /\ UNCHANGED <<faPc, faSearchResults, faMaxResults, faReturned>>

\* Promise.allSettled wins the race.
AllSettledWins ==
    /\ faPc = "racing"
    /\ \A i \in DOMAIN faSettled : faSettled[i] # "pending"
    /\ faPc' = "returned"
    /\ faReturned' = [i \in DOMAIN faSettled |->
                        WithContent(Sliced(faSearchResults, faMaxResults)[i],
                                    i, faSettled[i])]
    /\ UNCHANGED <<faSearchResults, faMaxResults, faSettled, faAwaits>>

\* timeoutPromise wins the race.
DeadlineWins ==
    /\ faPc = "racing"
    /\ \E i \in DOMAIN faSettled : faSettled[i] = "pending"
    /\ faPc' = "returned"
    /\ faReturned' = WithSnippets(Sliced(faSearchResults, faMaxResults))
    /\ UNCHANGED <<faSearchResults, faMaxResults, faSettled, faAwaits>>

\* searchWeb, parseDuckDuckGoHTML and fetchSearchResultsContent at rest.
WebAtRest == CacheAtRest /\ ParseAtRest /\ FetchAllAtRest

(***************************************************************************)
(* fetchWithRetry and sleepWithAbort                                       *)
(***************************************************************************)
RETRY_MAX_ATTEMPTS == 3
RETRY_BASE_DELAY_MS == 1000
RETRY_MAX_DELAY_MS == 10000

RETRYABLE_STATUSES == {429, 500, 502, 503, 504}

\* The statuses a server answers with in the model.
Statuses == {200, 400, 401, 403, 404, 408, 422} \cup RETRYABLE_STATUSES

\* The reason phrase HTTP/1.1 servers send with a status.
ReasonPhrase(s) ==
    CASE s = 200 -> <<"ok">>
      [] s = 400 -> <<"bad", "request">>
      [] s = 401 -> <<"unauthorized">>
      [] s = 403 -> <<"forbidden">>
      [] s = 404 -> <<"not", "found">>
      [] s = 408 -> <<"request", "timeout">>
      [] s = 422 -> <<"unprocessable", "entity">>
      [] s = 429 -> <<"too", "many", "requests">>
      [] s = 500 -> <<"internal", "server", "error">>
      [] s = 502 -> <<"bad", "gateway">>
      [] s = 503 -> <<"service", "unavailable">>
      [] s = 504 -> <<"gateway", "timeout">>

\* response.statusText: the reason phrase, or empty (HTTP/2 carries none).
StatusTexts(s) == {ReasonPhrase(s), <<>>}

\* What response.text() can deliver for an error response.
Bodies == {<<>>, <<"invalid", "model">>, <<"upstream", "connection", "refused">>}

Responses == UNION {{[kind |-> "response", status |-> s, statusText |-> t] :
                        t \in StatusTexts(s)} : s \in Statuses}

\* fetch() rejects with a TypeError on a connection-level failure.
NetErrors == {[name |-> "TypeError", status |-> 0, msg |-> <<"network", "error">>]}

NoError == [name |-> "none", status |-> 0, msg |-> <<>>]
NoResponse == [kind |-> "none", status |-> 0, statusText |-> <<>>]
AbortError == [name |-> "AbortError", status |-> 0, msg |-> <<"aborted">>]
GenericRetryError == [name |-> "Error", status |-> 0,
                      msg |-> <<"request", "failed", "after", "retries">>]

ResponseOk(resp) == resp.status >= 200 /\ resp.status <= 299

\* new Error(`API error: ${status} ${statusText}${errorText ? " - " + errorText : ""}`)
\* The status is part of the message; the field status stands for its digits.
ApiError(resp, errorText) ==
    [name |-> "Error", status |-> resp.status,
     msg |-> <<"api", "error">> \o resp.statusText \o errorText]

\* /network|fetch|failed|timeout|connection|refused/i
RetryWords == {"network", "fetch", "failed", "timeout", "connection", "refused"}

MessageMatchesRetryRegex(msg) == \E i \in DOMAIN msg : msg[i] \in RetryWords

IsRetryable(err) == err.name = "TypeError" \/ MessageMatchesRetryRegex(err.msg)

AttemptsRemainOffByOne(a) == a < RETRY_MAX_ATTEMPTS

\* attempt < maxAttempts - 1
AttemptsRemain(a) == a < RETRY_MAX_ATTEMPTS - 1

BackoffDelayOffByOne(a) == Min(RETRY_BASE_DELAY_MS * Pow2(a + 1), RETRY_MAX_DELAY_MS)

\* Math.min(baseDelay * Math.pow(2, attempt), maxDelay)
BackoffDelay(a) == Min(RETRY_BASE_DELAY_MS * Pow2(a), RETRY_MAX_DELAY_MS)

FrTerminal == {"returned", "thrown"}
FrSleeping == {"sleepTry", "sleepCatch"}

FrInit ==
    /\ frPc = "fetch"
    /\ attempt = 0
    /\ lastError = NoError
    /\ frResponse = NoResponse
    /\ pendingErr = NoError
    /\ timerMs = 0
    /\ signalAborted = FALSE
    /\ frResult = NoError
    /\ attemptsMade = 1
    /\ delaysSlept = <<>>
    /\ frLog = <<>>
    /\ abortedAt = "never"
    /\ attemptsAtAbort = 0

\* The call ends by throwing err.
FrThrow(err) ==
    /\ frPc' = "thrown"
    /\ frResult' = err
    /\ timerMs' = 0
    /\ UNCHANGED <<attempt, attemptsMade, delaysSlept, pendingErr>>

\* sleepWithAbort(delay, signal), entered from where: a timer is armed; if the
\* signal is already aborted onAbort() runs at once (the timer is cleared and
\* the promise rejects), and the rejection ends the call with the AbortError
\* (the catch block rethrows it, or it leaves the catch block).
SleepWithAbort(where, err) ==
    IF signalAborted
    THEN FrThrow(AbortError)
    ELSE /\ frPc' = where
         /\ timerMs' = BackoffDelay(attempt)
         /\ delaysSlept' = Append(delaysSlept, BackoffDelay(attempt))
         /\ pendingErr' = err
         /\ UNCHANGED <<attempt, attemptsMade, frResult>>

\* catch (err) { ... } of fetchWithRetry
FrCatch(err) ==
    IF err.name = "AbortError"
    THEN FrThrow(err)
    ELSE IF IsRetryable(err) /\ AttemptsRemain(attempt)
         THEN SleepWithAbort("sleepCatch", err)
         ELSE FrThrow(err)

\* await fetch(...) resolves with a response.
FetchResolves(resp) ==
    /\ frPc = "fetch"
    /\ ~signalAborted
    /\ frLog' = Append(frLog, resp)
    /\ IF ResponseOk(resp)
       THEN /\ frPc' = "returned"
            /\ frResult' = [name |-> "response", status |-> resp.status, msg |-> <<>>]
            /\ UNCHANGED frResponse
       ELSE /\ frPc' = IF resp.status \in RETRYABLE_STATUSES /\ AttemptsRemain(attempt)
                       THEN "drain" ELSE "readErr"
            /\ frResponse' = resp
            /\ UNCHANGED frResult
    /\ UNCHANGED <<attempt, lastError, pendingErr, timerMs, signalAborted,
                   attemptsMade, delaysSlept, abortedAt, attemptsAtAbort>>

\* await fetch(...) rejects with a connection-level error.
FetchRejects(err) ==
    /\ frPc = "fetch"
    /\ ~signalAborted
    /\ frLog' = Append(frLog, [kind |-> "neterr", status |-> 0, statusText |-> err.msg])
    /\ FrCatch(err)
    /\ UNCHANGED <<lastError, frResponse, signalAborted, abortedAt, attemptsAtAbort>>

\* await fetch(...) rejects because the signal is aborted.
FetchAborted ==
    /\ frPc = "fetch"
    /\ signalAborted
    /\ FrCatch(AbortError)
    /\ UNCHANGED <<lastError, frResponse, signalAborted, frLog, abortedAt,
                   attemptsAtAbort>>

\* await response.text().catch(() => "") of a retryable response is over
\* (a failed read, an abort included, is swallowed); then the backoff sleep.
DrainDone ==
    /\ frPc = "drain"
    /\ SleepWithAbort("sleepTry", NoError)
    /\ UNCHANGED <<lastError, frResponse, signalAborted, frLog, abortedAt,
                   attemptsAtAbort>>

\* await response.text().catch(() => "") of a terminal response is over:
\* lastError is built and thrown inside the try block, so the catch block
\* of the same function sees it.
ReadErrDone(errorText) ==
    /\ frPc = "readErr"
    /\ signalAborted => errorText = <<>>
    /\ lastError' = ApiError(frResponse, errorText)
    /\ FrCatch(ApiError(frResponse, errorText))
    /\ UNCHANGED <<frResponse, signalAborted, frLog, abortedAt, attemptsAtAbort>>

\* The timer of sleepWithAbort fires: the sleep resolves, the loop continues
\* with the next attempt (or leaves the loop when none is left).
SleepTimerFires ==
    /\ frPc \in FrSleeping
    /\ timerMs > 0
    /\ timerMs' = 0
    /\ lastError' = IF frPc = "sleepCatch" THEN pendingErr ELSE lastError
    /\ attempt' = attempt + 1
    /\ IF attempt + 1 < RETRY_MAX_ATTEMPTS
       THEN /\ frPc' = "fetch"
            /\ attemptsMade' = attemptsMade + 1
            /\ UNCHANGED frResult
       ELSE /\ frPc' = "thrown"
            /\ frResult' = IF lastError' = NoError THEN GenericRetryError ELSE lastError'
            /\ UNCHANGED attemptsMade
    /\ UNCHANGED <<frResponse, pendingErr, signalAborted, delaysSlept, frLog,
                   abortedAt, attemptsAtAbort>>

SleepOnAbortNoListener ==
    UNCHANGED <<frPc, frResult, timerMs, attempt, attemptsMade, delaysSlept, pendingErr>>

\* onAbort of sleepWithAbort: clearTimeout(t); reject(AbortError).  The
\* rejection ends fetchWithRetry with the AbortError.
SleepOnAbort ==
    FrThrow(AbortError)

\* The cancel token fires.  Its listeners run synchronously.
FrAbort ==
    /\ frPc \notin FrTerminal
    /\ ~signalAborted
    /\ signalAborted' = TRUE
    /\ abortedAt' = frPc
    /\ attemptsAtAbort' = attemptsMade
    /\ IF frPc \in FrSleeping
       THEN SleepOnAbort
       ELSE UNCHANGED <<frPc, frResult, timerMs, attempt, attemptsMade,
                        delaysSlept, pendingErr>>
    /\ UNCHANGED <<lastError, frResponse, frLog>>

\* The state outside one call of fetchWithRetry, at rest.
StreamAtRest ==
    /\ stPc = "idle"
    /\ isOllama = FALSE
    /\ payload = <<>>
    /\ pos = 0
    /\ buffer = <<>>
    /\ accumulatedText = <<>>
    /\ renderPending = FALSE
    /\ rendered = <<>>
    /\ finalRenders = 0
    /\ deltas = <<>>
    /\ heldBack = FALSE

GlobalsAtRest ==
    /\ currentAssistantMessage = <<>>
    /\ webSearchEnabled = FALSE
    /\ ModuleLoaded

FrFrame == UNCHANGED <<streamVars, globalVars, webVars, historyVars>>

FrNext ==
    \/ \E resp \in Responses : FetchResolves(resp) /\ FrFrame
    \/ \E err \in NetErrors : FetchRejects(err) /\ FrFrame
    \/ FetchAborted /\ FrFrame
    \/ DrainDone /\ FrFrame
    \/ \E errorText \in Bodies : ReadErrDone(errorText) /\ FrFrame
    \/ SleepTimerFires /\ FrFrame
    \/ FrAbort /\ FrFrame

FetchRetryInit == FrInit /\ StreamAtRest /\ GlobalsAtRest /\ WebAtRest

FetchRetrySpec == FetchRetryInit /\ [][FrNext]_vars

\* Every attempt gets its outcome and every armed timer fires; the host is
\* free never to cancel.
FrProgress ==
    \/ \E resp \in Responses : FetchResolves(resp) /\ FrFrame
    \/ \E err \in NetErrors : FetchRejects(err) /\ FrFrame
    \/ FetchAborted /\ FrFrame
    \/ DrainDone /\ FrFrame
    \/ \E errorText \in Bodies : ReadErrDone(errorText) /\ FrFrame
    \/ SleepTimerFires /\ FrFrame

FetchRetryFairSpec == FetchRetrySpec /\ WF_vars(FrProgress)

LogStatuses == [i \in DOMAIN frLog |-> frLog[i].status]

IsNonRetryableResponse(o) ==
    /\ o.kind = "response"
    /\ ~ResponseOk(o)
    /\ o.status \notin RETRYABLE_STATUSES

\* C6: a response whose status is outside {429,500,502,503,504} is terminal on
\* first occurrence: no attempt follows it, whatever its status text or body
\* (a first answer of 400, 401, 403, 404, 408 or 422 means exactly one attempt).
C6_NonRetryableStatusIsTerminal ==
    \A i \in DOMAIN frLog : IsNonRetryableResponse(frLog[i]) => attemptsMade = i

\* C7: given the responses 503, 503, 200 the call makes exactly 3 attempts,
\* sleeps BASE before the second and 2*BASE before the third (both within
\* [BASE, 4*BASE] and not above CAP) and returns the 200 response.
C7_Backoff503_503_200 ==
    LogStatuses = <<503, 503, 200>> =>
        /\ attemptsMade = 3
        /\ delaysSlept = <<RETRY_BASE_DELAY_MS, 2 * RETRY_BASE_DELAY_MS>>
        /\ \A i \in DOMAIN delaysSlept :
              /\ delaysSlept[i] >= RETRY_BASE_DELAY_MS
              /\ delaysSlept[i] <= 4 * RETRY_BASE_DELAY_MS
              /\ delaysSlept[i] <= RETRY_MAX_DELAY_MS
        /\ frPc = "returned"
        /\ frResult.name = "response"
        /\ frResult.status = 200

C7_Witness ==
    /\ LogStatuses = <<503, 503, 200>>
    /\ frPc = "returned"
    /\ Len(delaysSlept) = 2

IsErrorOfAttempt(err, o) ==
    IF o.kind = "response"
    THEN /\ err.name = "Error"
         /\ err.status = o.status
         /\ Len(err.msg) >= 2 + Len(o.statusText)
         /\ SubSeq(err.msg, 1, 2 + Len(o.statusText)) = <<"api", "error">> \o o.statusText
    ELSE /\ err.name = "TypeError"
         /\ err.msg = o.statusText

FrExhausted ==
    /\ frPc = "thrown"
    /\ attemptsMade = RETRY_MAX_ATTEMPTS
    /\ frResult.name # "AbortError"

\* C9: for every sequence of attempt outcomes the call ends, after at most 3
\* attempts; when the retries are exhausted the error surfaced is the one of
\* the last attempt, with that attempt's HTTP status when it had a response.
C9_TerminatesWithLastError ==
    /\ [](attemptsMade <= 3 /\ Len(frLog) <= attemptsMade)
    /\ [](FrExhausted => IsErrorOfAttempt(frResult, Last(frLog)))
    /\ <>(frPc \in FrTerminal)

C9_Witness ==
    /\ FrExhausted
    /\ LogStatuses = <<503, 0, 503>>
    /\ frResult.status = 503

(***************************************************************************)
(* streamResponse: the read loop, the line decoder and the render debounce *)
(*                                                                         *)
(* The byte stream is a sequence of tokens.  "LF" is the newline, "SP" and *)
(* "CR" are white space, "data:" followed by "SP" is the prefix `data: `,  *)
(* "[DONE]" the terminal payload.  "{c" text "c}" stands for the object    *)
(* {"choices":[{"delta":{"content":text}}]}, "{m" text "m}" for            *)
(* {"message":{"content":text},"done":false} and "{m" text "m}D" for the   *)
(* same with "done":true.  A chunk boundary may fall between any two       *)
(* tokens.                                                                 *)
(***************************************************************************)
MaxLines == 3

ContentTokens == {"Hel", "lo"}
WhiteSpace == {"SP", "CR"}

\* The records a server sends to an OpenAI-compatible client (event-stream).
EventStreamLines ==
    { <<"data:", "SP", "{c", "Hel", "c}">>,
      <<"data:", "SP", "{c", "lo", "c}", "CR">>,
      <<"data:", "SP", "{c", "c}">>,
      <<"data:", "SP", "[DONE]">>,
      <<>>,
      <<"data:", "SP", "{c", "Hel">>,
      <<"{m", "lo", "m}">> }

\* The records a server sends to the Ollama client (line-delimited JSON).
NdjsonLines ==
    { <<"{m", "Hel", "m}">>,
      <<"{m", "lo", "m}", "CR">>,
      <<"{m", "lo", "m}D">>,
      <<"{m", "m}D">>,
      <<>>,
      <<"{m", "Hel">>,
      <<"data:", "SP", "{m", "Hel", "m}">> }

LinesFor(ollama) == IF ollama THEN NdjsonLines ELSE EventStreamLines

RECURSIVE JoinLines(_)
JoinLines(ls) ==
    IF ls = <<>> THEN <<>> ELSE Head(ls) \o <<"LF">> \o JoinLines(Tail(ls))

\* The newline-terminated payloads of at most MaxLines records.
Payloads(ollama) ==
    UNION {{JoinLines(ls) : ls \in [1..n -> LinesFor(ollama)]} : n \in 0..MaxLines}

\* buffer.split("\n")
RECURSIVE SplitLines(_)
SplitLines(s) ==
    IF \A i \in DOMAIN s : s[i] # "LF"
    THEN <<s>>
    ELSE LET i == CHOOSE j \in DOMAIN s :
                     s[j] = "LF" /\ \A k \in 1..(j - 1) : s[k] # "LF"
         IN  <<SubSeq(s, 1, i - 1)>> \o SplitLines(SubSeq(s, i + 1, Len(s)))

\* line.trim()
RECURSIVE Trim(_)
Trim(t) ==
    IF t = <<>> THEN t
    ELSE IF Head(t) \in WhiteSpace THEN Trim(Tail(t))
    ELSE IF t[Len(t)] \in WhiteSpace THEN Trim(SubSeq(t, 1, Len(t) - 1))
    ELSE t

\* trimmed.startsWith("data: ")
StartsWithData(t) == Len(t) >= 2 /\ t[1] = "data:" /\ t[2] = "SP"

\* JSON.parse: ok is FALSE when it throws.
JsonParse(t) ==
    LET inner == SubSeq(t, 2, Len(t) - 1)
        wellFormed ==
            /\ Len(t) >= 2
            /\ \/ t[1] = "{c" /\ t[Len(t)] = "c}"
               \/ t[1] = "{m" /\ t[Len(t)] \in {"m}", "m}D"}
            /\ \A i \in DOMAIN inner : inner[i] \in ContentTokens
    IN  IF wellFormed
        THEN [ok |-> TRUE,
              shape |-> IF t[1] = "{c" THEN "choices" ELSE "message",
              content |-> inner,
              done |-> t[Len(t)] = "m}D"]
        ELSE [ok |-> FALSE, shape |-> "none", content |-> <<>>, done |-> FALSE]

ExtractDeltaIgnoresDone(json, ollama) ==
    [text |-> IF json.shape = (IF ollama THEN "message" ELSE "choices")
              THEN json.content ELSE <<>>,
     done |-> FALSE]

\* extractDelta(json); a null text and an empty text are both falsy: <<>>.
ExtractDelta(json, ollama) ==
    IF ollama
    THEN [text |-> IF json.shape = "message" THEN json.content ELSE <<>>,
          done |-> json.done]
    ELSE [text |-> IF json.shape = "choices" THEN json.content ELSE <<>>,
          done |-> FALSE]

\* if (text) { accumulatedText += text; currentAssistantMessage = accumulatedText;
\*             scheduleRender(); }
Emit(st, text) ==
    IF text = <<>>
    THEN st
    ELSE [st EXCEPT !.acc = @ \o text,
                    !.cam = st.acc \o text,
                    !.pending = TRUE,
                    !.deltas = Append(@, text)]

\* cancelPendingRender(); renderMarkdownToElement(accumulatedText, titleElement); return
FinishStream(st) ==
    [st EXCEPT !.pending = FALSE,
               !.rendered = st.acc,
               !.finals = @ + 1,
               !.finished = TRUE]

OnParseErrorThrows(st) == [st EXCEPT !.threw = TRUE, !.finished = TRUE]

\* catch (e) { /* ignore parse errors */ }
OnParseError(st) == st

\* The body of `for (const line of lines)`.
ProcessLine(line, st, ollama) ==
    LET trimmed == Trim(line)
    IN  IF trimmed = <<>> THEN st
        ELSE IF StartsWithData(trimmed)
        THEN LET data == SubSeq(trimmed, 3, Len(trimmed))
                 json == JsonParse(data)
             IN  IF data = <<"[DONE]">> THEN FinishStream(st)
                 ELSE IF json.ok THEN Emit(st, ExtractDelta(json, ollama).text)
                 ELSE OnParseError(st)
        ELSE IF ollama
        THEN LET json == JsonParse(trimmed)
                 d == ExtractDelta(json, ollama)
             IN  IF ~json.ok THEN OnParseError(st)
                 ELSE IF d.done THEN FinishStream(Emit(st, d.text))
                 ELSE Emit(st, d.text)
        ELSE st

RECURSIVE ProcessLines(_, _, _)
ProcessLines(lines, st, ollama) ==
    IF lines = <<>> \/ st.finished
    THEN st
    ELSE ProcessLines(Tail(lines), ProcessLine(Head(lines), st, ollama), ollama)

KeepIncompleteLineDropped(pieces) == <<>>

\* buffer = lines.pop()
KeepIncompleteLine(pieces) == pieces[Len(pieces)]

StreamLocals ==
    [acc |-> accumulatedText, cam |-> currentAssistantMessage,
     pending |-> renderPending, rendered |-> rendered, finals |-> finalRenders,
     deltas |-> deltas, finished |-> FALSE, threw |-> FALSE]

StreamAssign(st) ==
    /\ accumulatedText' = st.acc
    /\ currentAssistantMessage' = st.cam
    /\ renderPending' = st.pending
    /\ rendered' = st.rendered
    /\ finalRenders' = st.finals
    /\ deltas' = st.deltas
    /\ stPc' = IF st.threw THEN "failed"
               ELSE IF st.finished THEN "returned" ELSE "reading"

\* reader.read() delivers the next n tokens as one chunk; the loop body runs.
StreamRead(n) ==
    /\ stPc = "reading"
    /\ n \in 1..(Len(payload) - pos)
    /\ LET pieces == SplitLines(buffer \o SubSeq(payload, pos + 1, pos + n))
           lines == SubSeq(pieces, 1, Len(pieces) - 1)
       IN  /\ buffer' = KeepIncompleteLine(pieces)
           /\ StreamAssign(ProcessLines(lines, StreamLocals, isOllama))
    /\ pos' = pos + n
    /\ heldBack' = (heldBack \/ buffer' # <<>>)
    /\ UNCHANGED <<isOllama, payload>>

\* reader.read() reports the end of the byte stream: break, then the final render.
StreamReadEnd ==
    /\ stPc = "reading"
    /\ pos = Len(payload)
    /\ StreamAssign(FinishStream(StreamLocals))
    /\ UNCHANGED <<isOllama, payload, pos, buffer, heldBack>>

\* The signal fires while reader.read() is awaited: the read rejects with the
\* AbortError, which leaves streamResponse.
StreamAbort ==
    /\ stPc = "reading"
    /\ stPc' = "aborted"
    /\ UNCHANGED <<isOllama, payload, pos, buffer, accumulatedText, renderPending,
                   rendered, finalRenders, deltas, heldBack, currentAssistantMessage>>

\* The debounce timer of scheduleRender fires.
DebounceFires ==
    /\ renderPending
    /\ renderPending' = FALSE
    /\ rendered' = accumulatedText
    /\ UNCHANGED <<stPc, isOllama, payload, pos, buffer, accumulatedText,
                   finalRenders, deltas, heldBack, currentAssistantMessage>>

FetchAtRest ==
    /\ frPc = "idle"
    /\ attempt = 0
    /\ lastError = NoError
    /\ frResponse = NoResponse
    /\ pendingErr = NoError
    /\ timerMs = 0
    /\ signalAborted = FALSE
    /\ frResult = NoError
    /\ attemptsMade = 0
    /\ delaysSlept = <<>>
    /\ frLog = <<>>
    /\ abortedAt = "never"
    /\ attemptsAtAbort = 0

\* streamResponse once fetchWithRetry has returned the response; the module
\* variable currentAssistantMessage holds what an earlier turn left in it.
StreamInit ==
    /\ FetchAtRest
    /\ WebAtRest
    /\ stPc = "reading"
    /\ isOllama \in BOOLEAN
    /\ payload \in Payloads(isOllama)
    /\ pos = 0
    /\ buffer = <<>>
    /\ accumulatedText = <<>>
    /\ renderPending = FALSE
    /\ rendered = <<>>
    /\ finalRenders = 0
    /\ deltas = <<>>
    /\ heldBack = FALSE
    /\ currentAssistantMessage \in {<<>>, <<"lo">>}
    /\ webSearchEnabled = FALSE
    /\ ModuleLoaded

StreamFrame == UNCHANGED <<retryVars, turnVars, webVars, historyVars>>

StreamNext ==
    \/ \E n \in 1..Len(payload) : StreamRead(n) /\ StreamFrame
    \/ StreamReadEnd /\ StreamFrame
    \/ StreamAbort /\ StreamFrame
    \/ DebounceFires /\ StreamFrame

StreamSpec == StreamInit /\ [][StreamNext]_vars

WellFormedPayload(p) == p = <<>> \/ p[Len(p)] = "LF"

\* The tokens of s after its last newline.
AfterLastNewline(s) ==
    LET nl == {i \in DOMAIN s : s[i] = "LF"}
        m == IF nl = {} THEN 0 ELSE CHOOSE i \in nl : \A j \in nl : j <= i
    IN  SubSeq(s, m + 1, Len(s))

\* The complete records among the first n tokens of the payload, decoded as
\* one chunk by a decoder that starts from nothing.
DecodedWhole(n) ==
    LET pieces == SplitLines(SubSeq(payload, 1, n))
    IN  ProcessLines(SubSeq(pieces, 1, Len(pieces) - 1),
                     [acc |-> <<>>, cam |-> <<>>, pending |-> FALSE, rendered |-> <<>>,
                      finals |-> 0, deltas |-> <<>>, finished |-> FALSE,
                      threw |-> FALSE],
                     isOllama)

\* C10: however a well-formed event-stream payload is cut into chunks, the
\* ordered text deltas and the accumulated text are those of the payload
\* decoded in one piece; while reading, the buffer holds exactly the
\* incomplete last line of what has arrived.
C10_ChunkSplitInvariance ==
    WellFormedPayload(payload) =>
        /\ stPc = "reading" =>
              /\ buffer = AfterLastNewline(SubSeq(payload, 1, pos))
              /\ deltas = DecodedWhole(pos).deltas
              /\ accumulatedText = DecodedWhole(pos).acc
        /\ stPc = "returned" =>
              /\ deltas = DecodedWhole(Len(payload)).deltas
              /\ accumulatedText = DecodedWhole(Len(payload)).acc

C10_Witness ==
    /\ ~isOllama
    /\ payload = JoinLines(<< <<"data:", "SP", "{c", "Hel", "c}">>,
                              <<"data:", "SP", "{c", "lo", "c}", "CR">>,
                              <<"data:", "SP", "[DONE]">> >>)
    /\ stPc = "returned"
    /\ heldBack
    /\ deltas = << <<"Hel">>, <<"lo">> >>
    /\ accumulatedText = <<"Hel", "lo">>

\* The complete lines among the first n tokens of the payload.
CompleteLines(n) ==
    LET pieces == SplitLines(SubSeq(payload, 1, n))
    IN  SubSeq(pieces, 1, Len(pieces) - 1)

\* A line that is a terminal marker of the wire format: the payload [DONE],
\* or in line-delimited JSON an object with done:true.
TerminalLine(line, ollama) ==
    LET t == Trim(line)
    IN  \/ t = <<"data:", "SP", "[DONE]">>
        \/ ollama /\ ~StartsWithData(t) /\ JsonParse(t).ok /\ JsonParse(t).done

\* The text a line carries in the wire format.
LineText(line, ollama) ==
    LET t == Trim(line)
        prefixed == StartsWithData(t)
        json == JsonParse(IF prefixed THEN SubSeq(t, 3, Len(t)) ELSE t)
    IN  IF ~json.ok \/ (~ollama /\ ~prefixed) THEN <<>>
        ELSE IF json.shape = (IF ollama THEN "message" ELSE "choices")
        THEN json.content
        ELSE <<>>

RECURSIVE TextOfLines(_, _)
TextOfLines(ls, ollama) ==
    IF ls = <<>> THEN <<>>
    ELSE LineText(Head(ls), ollama) \o TextOfLines(Tail(ls), ollama)

\* The index of the first terminal line of ls, 0 when there is none.
FirstTerminal(ls, ollama) ==
    LET ts == {i \in DOMAIN ls : TerminalLine(ls[i], ollama)}
    IN  IF ts = {} THEN 0 ELSE CHOOSE i \in ts : \A j \in ts : i <= j

\* C11: the stream is never still being read once a complete terminal line
\* has been delivered, and when a terminal line ended it the accumulated and
\* rendered text is the text of the lines up to and including that line:
\* later lines and chunks add nothing, and in event-stream format neither do
\* lines without the "data: " prefix.
C11_TerminalMarkerEndsStream ==
    LET ls == CompleteLines(pos)
        k == FirstTerminal(ls, isOllama)
    IN  /\ stPc = "reading" => k = 0
        /\ stPc = "returned" /\ k > 0 =>
              /\ accumulatedText = TextOfLines(SubSeq(ls, 1, k), isOllama)
              /\ rendered = accumulatedText
              /\ ~renderPending

C11_Witness ==
    /\ isOllama
    /\ payload = JoinLines(<< <<"{m", "Hel", "m}">>,
                              <<"{m", "lo", "m}D">>,
                              <<"{m", "Hel", "m}">> >>)
    /\ pos = Len(payload)
    /\ stPc = "returned"
    /\ accumulatedText = <<"Hel", "lo">>
    /\ rendered = <<"Hel", "lo">>

\* The locals of streamResponse before its first read.
FreshLocals ==
    [acc |-> <<>>, cam |-> <<>>, pending |-> FALSE, rendered |-> <<>>,
     finals |-> 0, deltas |-> <<>>, finished |-> FALSE, threw |-> FALSE]

\* A non-blank line whose JSON text, after the "data: " prefix if it has one,
\* does not parse.
MalformedLine(line) ==
    LET t == Trim(line)
        body == IF StartsWithData(t) THEN SubSeq(t, 3, Len(t)) ELSE t
    IN  t # <<>> /\ body # <<"[DONE]">> /\ ~JsonParse(body).ok

\* C12: streamResponse never fails on a line, and the deltas and the text
\* it has accumulated from the delivered lines are those of the same lines
\* with the malformed ones removed, in either wire format.
C12_MalformedLinesSkipped ==
    LET ls == CompleteLines(pos)
        clean == SelectSeq(ls, LAMBDA l : ~MalformedLine(l))
        ref == ProcessLines(clean, FreshLocals, isOllama)
    IN  /\ stPc # "failed"
        /\ deltas = ref.deltas
        /\ accumulatedText = ref.acc
        /\ stPc = "reading" => ~ref.finished

C12_Witness ==
    /\ ~isOllama
    /\ payload = JoinLines(<< <<"data:", "SP", "{c", "Hel", "c}">>,
                              <<"data:", "SP", "{c", "Hel">>,
                              <<"data:", "SP", "{c", "lo", "c}", "CR">> >>)
    /\ pos = Len(payload)
    /\ stPc = "returned"
    /\ deltas = << <<"Hel">>, <<"lo">> >>
    /\ accumulatedText = <<"Hel", "lo">>

\* C13: once streamResponse has ended, by completion or by abort, no
\* debounce timer is pending and exactly one non-debounced render of the
\* accumulated text has taken place.
C13_DebounceEndsCleanly ==
    stPc \in {"returned", "aborted"} =>
        /\ ~renderPending
        /\ finalRenders = 1
        /\ rendered = accumulatedText

(***************************************************************************)
(* sendToLLM and the handlers that start, supersede and cancel its calls   *)
(***************************************************************************)
\* The caps of the session store, scaled down: SessionCapacity stands for
\* HISTORY_MAX_SESSIONS_PER_PROVIDER (20) and MessageCapacity for
\* HISTORY_MAX_MESSAGES_PER_SESSION (50).
SessionCapacity == 2
MessageCapacity == 3

\* What the chat-completion request of streamResponse throws when it fails.
TurnErrors ==
    {[name |-> "Error", status |-> 503], [name |-> "TypeError", status |-> 0]}

TurnAbortError == [name |-> "AbortError", status |-> 0]
\* What the executor of searchDuckDuckGoDirect throws.
SearchError == [name |-> "Error", status |-> 0]
\* Reading .signal of null, or an element of an empty conversation.
NullTypeError == [name |-> "TypeError", status |-> 0]

Suspended == {"Classifying", "Searching", "Fetching", "StreamFetch", "Streaming"}

SupportsWebSearch(providerKey) ==
    providerKey \in {"openai", "mistral", "ollama", "gemini"}

ClassifiesWhenDisabled(enabled, providerKey) == SupportsWebSearch(providerKey)

\* if (isWebSearchEnabled() && supportsWebSearch)
NeedsClassifier(enabled, providerKey) ==
    enabled /\ SupportsWebSearch(providerKey)

QueryOf(t) == <<"q1", "q2", "q3", "q4", "q5", "q6">>[t]

UserMessage(t) ==
    [role |-> "user", content |-> <<QueryOf(t)>>, sources |-> NoSources]

\* The k-th text delta of a stream.
DeltaText(k) == <<"Hel", "lo">>[((k - 1) % 2) + 1]

toApiMessage(m) == [role |-> m.role, content |-> m.content]

languageSystemMessage ==
    [role |-> "system", content |-> <<"LANGUAGE_SYSTEM_INSTRUCTION">>]

\* formatSearchResultsForLLM(resultsWithContent, query) as a system message.
SearchContextMessage(t) ==
    [role |-> "system", content |-> <<"searchContext", QueryOf(t)>>]

ApiMessages(conv) == [i \in DOMAIN conv |-> toApiMessage(conv[i])]

MessagesToSend(conv, hasContext, t) ==
    IF hasContext
    THEN <<languageSystemMessage>>
         \o ApiMessages(SubSeq(conv, 1, Len(conv) - 1))
         \o <<SearchContextMessage(t), toApiMessage(conv[Len(conv)])>>
    ELSE <<languageSystemMessage>> \o ApiMessages(conv)

\* conversationHistory[-1] is undefined, and so is null.signal.
ComposeThrows(conv, hasContext) == hasContext /\ conv = <<>>

StreamCallThrows(conv, hasContext, controller, provider) ==
    ComposeThrows(conv, hasContext) \/ controller = 0 \/ provider = "null"

\* From "Prepare messages" to the fetch of streamResponse, which runs without
\* a suspension: the locals of the turn afterwards.
TurnAfterCompose(tr, conv, hasContext, controller, provider) ==
    IF StreamCallThrows(conv, hasContext, controller, provider)
    THEN [tr EXCEPT !.pc = "Failed", !.awaitSignal = 0, !.resolved = FALSE]
    ELSE [tr EXCEPT !.pc = "StreamFetch", !.awaitSignal = controller,
                    !.resolved = FALSE]

ObsAfterCompose(ob, conv, hasContext, controller, provider, t) ==
    [ob EXCEPT
       !.messagesToSend = IF ComposeThrows(conv, hasContext) THEN <<>>
                          ELSE MessagesToSend(conv, hasContext, t),
       !.chatRequested = ~StreamCallThrows(conv, hasContext, controller, provider),
       !.error = IF StreamCallThrows(conv, hasContext, controller, provider)
                 THEN NullTypeError ELSE @]

\* A promise a turn awaits is settled already: its continuation is a
\* microtask, which runs before any other event is handled.
MicrotaskPending(t) ==
    \/ /\ turn[t].pc = "Classifying"
       /\ turn[t].resolved \/ aborted[turn[t].awaitSignal]
    \/ /\ turn[t].pc \in {"StreamFetch", "Streaming"}
       /\ aborted[turn[t].awaitSignal]

NoMicrotask == \A t \in TurnIds : ~MicrotaskPending(t)

\* abortController.abort(), when there is a controller.
AbortedAfterAbort ==
    IF abortController = 0 THEN aborted
    ELSE [aborted EXCEPT ![abortController] = TRUE]

ObsAfterAbort(cause) ==
    [u \in TurnIds |->
        IF abortController # 0 /\ turn[u].pc \in Suspended
        THEN [obs[u] EXCEPT
                !.cancelledIn = IF u = abortController /\ @ = "none"
                                THEN turn[u].pc ELSE @,
                !.cancelCause = IF u = abortController /\ @ = "none"
                                THEN cause ELSE @,
                !.readAborted = @ \/ (turn[u].pc = "Streaming"
                                      /\ turn[u].awaitSignal = abortController)]
        ELSE obs[u]]

\* buildSessionFromConversation: the provider key, whether a session is
\* built, and the session.
SessionProviderKey ==
    IF providerAttr # "null" THEN providerAttr ELSE currentProvider

HasUserMessage(conv) == \E i \in DOMAIN conv : conv[i].role = "user"

FirstUserIndex(conv) ==
    CHOOSE i \in DOMAIN conv :
        conv[i].role = "user" /\ \A j \in 1..(i - 1) : conv[j].role # "user"

SliceLast(conv, n) ==
    IF Len(conv) <= n THEN conv ELSE SubSeq(conv, Len(conv) - n + 1, Len(conv))

BuildsSession(conv) ==
    conv # <<>> /\ SessionProviderKey # "null" /\ HasUserMessage(conv)

SessionIdFor(sid) == IF sid # 0 THEN sid ELSE nextSessionId

\* A timestamp that is undefined is 0, which is falsy as undefined is.
buildSessionFromConversation(conv, sid) ==
    [id |-> SessionIdFor(sid),
     providerKey |-> SessionProviderKey,
     createdAt |-> IF sid # 0 THEN 0 ELSE now,
     updatedAt |-> now,
     title |-> conv[FirstUserIndex(conv)].content,
     messages |-> SliceLast(conv, MessageCapacity)]

\* a || b on timestamps
OrElse(a, b) == IF a # 0 THEN a ELSE b

CreatedAtIgnored(st, id) == 0

\* existing?.createdAt
CreatedAtOf(st, id) == IF id \in DOMAIN st THEN st[id].createdAt ELSE 0

\* const toSave = { ... } in getReq.onsuccess of putSession
ToSave(st, session) ==
    [id |-> session.id,
     providerKey |-> session.providerKey,
     createdAt |-> OrElse(CreatedAtOf(st, session.id),
                          OrElse(session.createdAt,
                                 OrElse(session.updatedAt, now))),
     updatedAt |-> OrElse(session.updatedAt, now),
     title |-> session.title,
     messages |-> session.messages]

\* store.put(toSave)
StorePut(st, session) ==
    [i \in DOMAIN st \cup {session.id} |->
        IF i = session.id THEN ToSave(st, session) ELSE st[i]]

\* sessions.sort((a, b) => (b.updatedAt || 0) - (a.updatedAt || 0)) on the
\* result of index.getAll, which comes in the order of the ids: a is before b.
SortsBefore(a, b) ==
    \/ a.updatedAt > b.updatedAt
    \/ a.updatedAt = b.updatedAt /\ a.id < b.id

\* The sessions of the provider, and the index of one in the sorted array.
ProviderSessionIds(st, providerKey) ==
    {i \in DOMAIN st : st[i].providerKey = providerKey}

SortedIndex(st, i) ==
    Cardinality({j \in ProviderSessionIds(st, st[i].providerKey) :
                    SortsBefore(st[j], st[i])})

PrunesNothing(st, providerKey) == st

\* pruneSessionsForProvider: the store after sessions.slice(cap) is deleted.
pruneSessionsForProvider(st, providerKey) ==
    [i \in {j \in DOMAIN st :
               \/ st[j].providerKey # providerKey
               \/ SortedIndex(st, j) < SessionCapacity} |-> st[i]]

\* putSession: the store after the upsert and the pruning that follows it.
putSession(session) ==
    pruneSessionsForProvider(StorePut(store, session), session.providerKey)

\* maybeSaveConversationToHistory for the conversation conv.
StoreAfterSave(conv, sid) ==
    IF BuildsSession(conv)
    THEN putSession(buildSessionFromConversation(conv, sid))
    ELSE store

\* maybeSaveConversationToHistory without its last assignment
SessionIdNotKept(conv, sid) == sid

SessionIdAfterSave(conv, sid) ==
    IF BuildsSession(conv) THEN SessionIdFor(sid) ELSE sid

NextIdAfterSave(conv, sid) ==
    IF BuildsSession(conv) /\ sid = 0 THEN nextSessionId + 1 ELSE nextSessionId

\* "/provider " typed in the url bar: activateLLMMode.
Activate(providerKey) ==
    /\ ~isLLMMode
    /\ NoMicrotask
    /\ isLLMMode' = TRUE
    /\ currentProvider' = providerKey
    /\ providerAttr' = providerKey
    /\ UNCHANGED <<currentAssistantMessage, webSearchEnabled, abortController,
                   aborted, conversationHistory, currentSearchSources,
                   currentSessionId, showingHistoryList, listSessions, store,
                   nextSessionId, turns, turn, obs>>

\* Escape, Backspace on an empty input, or blur: deactivateLLMMode.
Deactivate ==
    /\ isLLMMode
    /\ NoMicrotask
    /\ store' = StoreAfterSave(conversationHistory, currentSessionId)
    /\ nextSessionId' = NextIdAfterSave(conversationHistory, currentSessionId)
    /\ isLLMMode' = FALSE
    /\ currentProvider' = "null"
    /\ providerAttr' = "null"
    /\ aborted' = AbortedAfterAbort
    /\ obs' = ObsAfterAbort("deactivate")
    /\ abortController' = 0
    /\ currentAssistantMessage' = <<>>
    /\ currentSearchSources' = NoSources
    /\ currentSessionId' = 0
    /\ conversationHistory' = <<>>
    /\ showingHistoryList' = FALSE
    /\ listSessions' = <<>>
    /\ UNCHANGED <<webSearchEnabled, turns, turn>>

\* Enter with a non-empty query: the keydown handler and sendToLLM up to its
\* first suspension.  The provider has its API key and the result row is
\* created, so neither early return of sendToLLM is taken.
EnterKey ==
    LET t == turns + 1
        conv == Append(conversationHistory, UserMessage(t))
        classify == NeedsClassifier(webSearchEnabled, providerAttr)
        started == [UnbornTurn EXCEPT !.pc = "Classifying", !.awaitSignal = t,
                                      !.resolved = Len(conv) > 1]
        observed == [ObsAfterAbort("newTurn") EXCEPT
                        ![t].startConv = conv, ![t].providerKey = providerAttr]
    IN  /\ isLLMMode
        /\ turns < MaxTurns
        /\ NoMicrotask
        /\ turns' = t
        /\ currentSessionId' = IF showingHistoryList THEN 0 ELSE currentSessionId
        /\ showingHistoryList' = FALSE
        /\ listSessions' = <<>>
        /\ conversationHistory' = conv
        /\ currentSearchSources' = NoSources
        /\ aborted' = AbortedAfterAbort
        /\ abortController' = t
        /\ turn' = [turn EXCEPT ![t] =
                      IF classify THEN started
                      ELSE TurnAfterCompose(started, conv, FALSE, t, currentProvider)]
        /\ obs' = IF classify THEN observed
                  ELSE [observed EXCEPT ![t] =
                          ObsAfterCompose(@, conv, FALSE, t, currentProvider, t)]
        /\ UNCHANGED <<currentAssistantMessage, isLLMMode, currentProvider,
                       providerAttr, webSearchEnabled, store, nextSessionId>>

\* Alt+ArrowUp: the stored sessions of the provider are listed.
ShowHistoryList ==
    LET ids == {i \in DOMAIN store : store[i].providerKey = providerAttr}
    IN  /\ isLLMMode
        /\ NoMicrotask
        /\ providerAttr # "null"
        /\ ids # {}
        /\ showingHistoryList' = TRUE
        /\ listSessions' = [i \in ids |-> store[i]]
        /\ UNCHANGED <<currentAssistantMessage, isLLMMode, currentProvider,
                       providerAttr, webSearchEnabled, abortController, aborted,
                       conversationHistory, currentSearchSources,
                       currentSessionId, store, nextSessionId, turns, turn, obs>>

\* Alt+ArrowDown while the list is shown: dismissHistoryList.
DismissHistoryList ==
    /\ isLLMMode
    /\ NoMicrotask
    /\ showingHistoryList
    /\ showingHistoryList' = FALSE
    /\ listSessions' = <<>>
    /\ conversationHistory' = <<>>
    /\ currentSessionId' = 0
    /\ UNCHANGED <<currentAssistantMessage, isLLMMode, currentProvider,
                   providerAttr, webSearchEnabled, abortController, aborted,
                   currentSearchSources, store, nextSessionId, turns, turn, obs>>

\* A click on an entry of the list: loadSessionIntoCurrentConversation.
LoadSession(i) ==
    /\ showingHistoryList
    /\ NoMicrotask
    /\ i \in DOMAIN listSessions
    /\ aborted' = AbortedAfterAbort
    /\ obs' = ObsAfterAbort("load")
    /\ abortController' = 0
    /\ currentSessionId' = listSessions[i].id
    /\ conversationHistory' = listSessions[i].messages
    /\ providerAttr' = listSessions[i].providerKey
    /\ showingHistoryList' = FALSE
    /\ listSessions' = <<>>
    /\ UNCHANGED <<currentAssistantMessage, isLLMMode, currentProvider,
                   webSearchEnabled, currentSearchSources, store, nextSessionId,
                   turns, turn>>

\* sendToLLM from "Clear spinner" to the fetch of streamResponse, with the
\* module state as it is when the turn gets there.
ComposeAndStream(t, hasContext) ==
    /\ turn' = [turn EXCEPT ![t] =
                  TurnAfterCompose(@, conversationHistory, hasContext,
                                   abortController, currentProvider)]
    /\ obs' = [obs EXCEPT ![t] =
                 ObsAfterCompose(@, conversationHistory, hasContext,
                                 abortController, currentProvider, t)]

\* How a call of queryNeedsWebSearchLLM ends: at once for a follow-up, with
\* its request aborted, with the model's one-word answer, or with a failure
\* (an error status or exhausted retries, a connection failure, a body that
\* response.json() cannot read).
ClassifierFailures == {"httpError", "networkError", "badBody"}
ClassifierOutcomes == {"SEARCH", "ANSWER"} \cup ClassifierFailures

\* What the request of the classifier throws inside its try block.
ClassifierThrown(outcome) ==
    CASE outcome = "aborted" -> TurnAbortError
      [] outcome = "httpError" -> [name |-> "Error", status |-> 503]
      [] outcome = "networkError" -> [name |-> "TypeError", status |-> 0]
      [] OTHER -> [name |-> "SyntaxError", status |-> 0]

ClassifierCatchRethrows(outcome) == "throw"

\* catch (err) { ...; return false; }
ClassifierCatch(outcome) == "noSearch"

VerdictIgnoresFollowUp(outcome) ==
    IF outcome \in {"followUp", "SEARCH"} THEN "search" ELSE "noSearch"

\* queryNeedsWebSearchLLM: what sendToLLM gets from it.
ClassifierVerdict(outcome) ==
    CASE outcome = "followUp" -> "noSearch"
      [] outcome = "SEARCH" -> "search"
      [] outcome = "ANSWER" -> "noSearch"
      [] OTHER -> ClassifierCatch(outcome)

\* sendToLLM once queryNeedsWebSearchLLM has ended with outcome.
AfterClassifier(t, outcome) ==
    LET verdict == ClassifierVerdict(outcome)
        seen == [obs EXCEPT ![t].classifierFailed = outcome \in ClassifierFailures,
                            ![t].verdict = verdict,
                            ![t].classifierAsked = outcome # "followUp"]
    IN  /\ CASE verdict = "search" ->
                  /\ turn' = [turn EXCEPT ![t].pc = "Searching",
                                          ![t].awaitSignal = 0,
                                          ![t].resolved = FALSE]
                  /\ obs' = seen
                  /\ UNCHANGED currentSearchSources
             [] verdict = "noSearch" ->
                  /\ turn' = [turn EXCEPT ![t] =
                                TurnAfterCompose(@, conversationHistory, FALSE,
                                                 abortController, currentProvider)]
                  /\ obs' = [seen EXCEPT ![t] =
                               ObsAfterCompose(@, conversationHistory, FALSE,
                                               abortController, currentProvider, t)]
                  /\ currentSearchSources' = NoSources
             [] verdict = "throw" ->
                  /\ turn' = [turn EXCEPT
                                ![t].pc = IF outcome = "aborted" THEN "Cancelled"
                                          ELSE "Failed",
                                ![t].awaitSignal = 0,
                                ![t].resolved = FALSE]
                  /\ obs' = [seen EXCEPT ![t].error = ClassifierThrown(outcome)]
                  /\ UNCHANGED currentSearchSources
        /\ UNCHANGED <<currentAssistantMessage, isLLMMode, currentProvider,
                       providerAttr, webSearchEnabled, abortController, aborted,
                       conversationHistory, currentSessionId, showingHistoryList,
                       listSessions, store, nextSessionId, turns>>

\* queryNeedsWebSearchLLM returns at once for a follow-up, and its catch
\* turns the abort of its request into the answer false.
ClassifierSettles(t) ==
    /\ turn[t].pc = "Classifying"
    /\ MicrotaskPending(t)
    /\ AfterClassifier(t, IF turn[t].resolved THEN "followUp" ELSE "aborted")

\* The classifier request completes, with an answer or with a failure.
ClassifierReturns(t, outcome) ==
    /\ turn[t].pc = "Classifying"
    /\ NoMicrotask
    /\ AfterClassifier(t, outcome)

\* const searchResults = await searchWeb(query, LIMITS.MAX_SEARCH_RESULTS,
\* providerKey) ends; obs[t].search records whether any of its requests gave
\* results.
SearchReturns(t, providerKey, hasKey, nativeOutcome, scrapeOutcome) ==
    LET native == useOllamaSearch(providerKey, hasKey)
        ended == SearchWebEnd(QueryOf(t), MAX_SEARCH_RESULTS, native,
                              nativeOutcome, scrapeOutcome)
        found == (native /\ nativeOutcome = "results") \/ scrapeOutcome = "results"
        seen == [obs EXCEPT ![t].search = IF found THEN "found" ELSE "nothing"]
    IN
    /\ turn[t].pc = "Searching"
    /\ NoMicrotask
    /\ IF ended.how = "threw"
       THEN /\ turn' = [turn EXCEPT ![t].pc = "Failed"]
            /\ obs' = [seen EXCEPT ![t].error = SearchError]
       ELSE IF ended.returned # NoResults /\ ended.returned.n > 0
       THEN /\ turn' = [turn EXCEPT ![t].pc = "Fetching",
                                     ![t].nResults = ended.returned.n]
            /\ obs' = seen
       ELSE /\ turn' = [turn EXCEPT ![t] =
                          TurnAfterCompose(@, conversationHistory, FALSE,
                                           abortController, currentProvider)]
            /\ obs' = [seen EXCEPT ![t] =
                         ObsAfterCompose(@, conversationHistory, FALSE,
                                         abortController, currentProvider, t)]
    /\ UNCHANGED <<currentAssistantMessage, isLLMMode, currentProvider,
                   providerAttr, webSearchEnabled, abortController, aborted,
                   conversationHistory, currentSearchSources, currentSessionId,
                   showingHistoryList, listSessions, store, nextSessionId, turns>>

\* fetchSearchResultsContent returns.
FetchContentReturns(t) ==
    /\ turn[t].pc = "Fetching"
    /\ NoMicrotask
    /\ currentSearchSources' =
          [owner |-> t, n |-> Min(turn[t].nResults, MAX_FETCH_RESULTS)]
    /\ ComposeAndStream(t, TRUE)
    /\ UNCHANGED <<currentAssistantMessage, isLLMMode, currentProvider,
                   providerAttr, webSearchEnabled, abortController, aborted,
                   conversationHistory, currentSessionId, showingHistoryList,
                   listSessions, store, nextSessionId, turns>>

TurnCatchKeepsPartial(t, err) ==
    LET assistantEntry ==
            [role |-> "assistant", content |-> currentAssistantMessage,
             sources |-> NoSources]
    IN  /\ turn' = [turn EXCEPT ![t].pc = IF err.name = "AbortError"
                                          THEN "Cancelled" ELSE "Failed"]
        /\ obs' = [obs EXCEPT ![t].error = err, ![t].appended = assistantEntry]
        /\ conversationHistory' = Append(conversationHistory, assistantEntry)
        /\ UNCHANGED <<currentAssistantMessage, isLLMMode, currentProvider,
                       providerAttr, webSearchEnabled, abortController, aborted,
                       currentSearchSources, currentSessionId,
                       showingHistoryList, listSessions, store, nextSessionId,
                       turns>>

\* The catch block of sendToLLM.
TurnCatch(t, err) ==
    /\ turn' = [turn EXCEPT ![t].pc = IF err.name = "AbortError"
                                      THEN "Cancelled" ELSE "Failed"]
    /\ obs' = [obs EXCEPT ![t].error = err]
    /\ UNCHANGED <<currentAssistantMessage, isLLMMode, currentProvider,
                   providerAttr, webSearchEnabled, abortController, aborted,
                   conversationHistory, currentSearchSources, currentSessionId,
                   showingHistoryList, listSessions, store, nextSessionId, turns>>

\* sendToLLM after streamResponse has returned.
Finalize(t) ==
    LET assistantEntry ==
            [role |-> "assistant", content |-> currentAssistantMessage,
             sources |-> IF currentSearchSources.n > 0
                         THEN currentSearchSources ELSE NoSources]
        conv == Append(conversationHistory, assistantEntry)
    IN  /\ conversationHistory' = conv
        /\ store' = StoreAfterSave(conv, currentSessionId)
        /\ currentSessionId' = SessionIdAfterSave(conv, currentSessionId)
        /\ nextSessionId' = NextIdAfterSave(conv, currentSessionId)
        /\ turn' = [turn EXCEPT ![t].pc = "Finalized"]
        /\ obs' = [obs EXCEPT ![t].appended = assistantEntry,
                              ![t].upserted = BuildsSession(conv)]
        /\ UNCHANGED <<currentAssistantMessage, isLLMMode, currentProvider,
                       providerAttr, webSearchEnabled, abortController, aborted,
                       currentSearchSources, showingHistoryList, listSessions,
                       turns>>

\* fetchWithRetry returns the response of the chat-completion request.
ChatResponseArrives(t) ==
    /\ turn[t].pc = "StreamFetch"
    /\ NoMicrotask
    /\ turn' = [turn EXCEPT ![t].pc = "Streaming"]
    /\ UNCHANGED <<currentAssistantMessage, isLLMMode, currentProvider,
                   providerAttr, webSearchEnabled, abortController, aborted,
                   conversationHistory, currentSearchSources, currentSessionId,
                   showingHistoryList, listSessions, store, nextSessionId,
                   turns, obs>>

\* fetchWithRetry throws, or a read of the body fails.
ChatRequestFails(t, err) ==
    /\ turn[t].pc \in {"StreamFetch", "Streaming"}
    /\ NoMicrotask
    /\ TurnCatch(t, err)

\* A read delivers a line that carries a text delta.
StreamDelta(t) ==
    LET text == Append(turn[t].acc, DeltaText(turn[t].nDeltas + 1))
    IN  /\ turn[t].pc = "Streaming"
        /\ NoMicrotask
        /\ turn[t].nDeltas < MaxDeltas
        /\ turn' = [turn EXCEPT ![t].acc = text, ![t].nDeltas = @ + 1]
        /\ currentAssistantMessage' = text
        /\ UNCHANGED <<isLLMMode, currentProvider, providerAttr,
                       webSearchEnabled, abortController, aborted,
                       conversationHistory, currentSearchSources,
                       currentSessionId, showingHistoryList, listSessions,
                       store, nextSessionId, turns, obs>>

\* The stream ends: a terminal marker, or the reader is done.
StreamDone(t) ==
    /\ turn[t].pc = "Streaming"
    /\ NoMicrotask
    /\ Finalize(t)

AbortedReadResolvesDone(t) == Finalize(t)

\* What the awaited fetch or read does when its signal fires.
AbortedReadSettles(t) == TurnCatch(t, TurnAbortError)

\* The signal the chat-completion request was given has fired.
ReadAborts(t) ==
    /\ turn[t].pc \in {"StreamFetch", "Streaming"}
    /\ MicrotaskPending(t)
    /\ AbortedReadSettles(t)

(***************************************************************************)
(* The catch block of sendToLLM (lines 4058-4086): the text shown for the  *)
(* error that ended the turn.                                              *)
(***************************************************************************)
\* msg.match(/api error:\s*(\d+)/): the status in the message, 0 for null.
StatusInMessage(err) ==
    IF Len(err.msg) >= 2 /\ SubSeq(err.msg, 1, 2) = <<"api", "error">>
    THEN err.status ELSE 0

\* /network|fetch|connection|timeout|refused/i
ConnectionWords == {"network", "fetch", "connection", "timeout", "refused"}

\* /api error|invalid|unauthorized/i
ApiFailureWords == {"invalid", "unauthorized"}

MessageHas(msg, words) == \E i \in DOMAIN msg : msg[i] \in words

MessageHasApiError(msg) ==
    \E i \in 1..(Len(msg) - 1) : msg[i] = "api" /\ msg[i + 1] = "error"

UserFacingText(err) ==
    IF err.name = "AbortError" THEN "Request cancelled"
    ELSE LET status == StatusInMessage(err)
         IN  CASE status = 401 \/ status = 403 -> "Invalid API key"
               [] status = 429 -> "Rate limit exceeded"
               [] status >= 500 -> "Service temporarily unavailable"
               [] status = 400 \/ status = 404 -> "Request failed"
               [] OTHER ->
                    IF MessageHas(err.msg, ConnectionWords)
                    THEN "Connection error"
                    ELSE IF \/ MessageHasApiError(err.msg)
                            \/ MessageHas(err.msg, ApiFailureWords)
                         THEN "API request failed"
                         ELSE "Something went wrong"

TurnFrame == UNCHANGED <<retryVars, streamVars, webVars, historyVars>>

TurnNext ==
    \/ \E providerKey \in ProviderKeys : Activate(providerKey) /\ TurnFrame
    \/ Deactivate /\ TurnFrame
    \/ EnterKey /\ TurnFrame
    \/ ShowHistoryList /\ TurnFrame
    \/ DismissHistoryList /\ TurnFrame
    \/ \E i \in DOMAIN listSessions : LoadSession(i) /\ TurnFrame
    \/ \E t \in TurnIds : ClassifierSettles(t) /\ TurnFrame
    \/ \E t \in TurnIds, outcome \in ClassifierOutcomes :
          ClassifierReturns(t, outcome) /\ TurnFrame
    \/ \E t \in TurnIds, providerKey \in ProviderKeys, hasKey \in BOOLEAN,
          nativeOutcome \in NativeOutcomes, scrapeOutcome \in ScrapeOutcomes :
          SearchReturns(t, providerKey, hasKey, nativeOutcome, scrapeOutcome)
          /\ TurnFrame
    \/ \E t \in TurnIds : FetchContentReturns(t) /\ TurnFrame
    \/ \E t \in TurnIds : ChatResponseArrives(t) /\ TurnFrame
    \/ \E t \in TurnIds, err \in TurnErrors : ChatRequestFails(t, err) /\ TurnFrame
    \/ \E t \in TurnIds : StreamDelta(t) /\ TurnFrame
    \/ \E t \in TurnIds : StreamDone(t) /\ TurnFrame
    \/ \E t \in TurnIds : ReadAborts(t) /\ TurnFrame

TurnInit ==
    /\ FetchAtRest
    /\ StreamAtRest
    /\ WebAtRest
    /\ currentAssistantMessage = <<>>
    /\ webSearchEnabled \in BOOLEAN
    /\ ModuleLoaded

TurnSpec == TurnInit /\ [][TurnNext]_vars

BeforeCompose == {"Classifying", "Searching", "Fetching"}

\* The signal the current await of turn t listens to has fired.
AbortDelivered(t) ==
    turn[t].awaitSignal # 0 /\ aborted[turn[t].awaitSignal]

\* C1: a turn whose controller was aborted by the start of a newer turn does
\* nothing more: if it had not issued its chat-completion request it never
\* issues one, it appends no assistant message and it does not invoke the
\* session upsert.
C1_SupersededTurnDoesNothing ==
    \A t \in TurnIds :
        obs[t].cancelCause = "newTurn" =>
            /\ obs[t].cancelledIn \in BeforeCompose => ~obs[t].chatRequested
            /\ obs[t].appended = NoMessage
            /\ ~obs[t].upserted

\* C2: a turn whose controller was aborted while it was in Classifying,
\* Searching or Fetching ends in Cancelled: it composes no message list,
\* issues no chat-completion request and appends no assistant message.
C2_CancelledBeforeComposeEndsCancelled ==
    \A t \in TurnIds :
        obs[t].cancelledIn \in BeforeCompose =>
            /\ turn[t].pc \in BeforeCompose \cup {"Cancelled"}
            /\ obs[t].messagesToSend = <<>>
            /\ ~obs[t].chatRequested
            /\ obs[t].appended = NoMessage

\* C3: when the signal a stream read listens to fires while the read is
\* awaited, the read is settled at once and with an abort error, the turn
\* ends in Cancelled, it appends no assistant message and it does not invoke
\* the session upsert.
C3_CancelledStreamLeavesNothing ==
    \A t \in TurnIds :
        obs[t].readAborted =>
            /\ turn[t].pc \in {"Streaming", "Cancelled"}
            /\ turn[t].pc = "Streaming" => MicrotaskPending(t)
            /\ turn[t].pc = "Cancelled" => obs[t].error = TurnAbortError
            /\ obs[t].appended = NoMessage
            /\ ~obs[t].upserted

C3_Witness ==
    \E t \in TurnIds :
        /\ obs[t].readAborted
        /\ obs[t].cancelledIn = "Streaming"
        /\ turn[t].pc = "Cancelled"
        /\ turn[t].acc = <<"Hel">>
        /\ conversationHistory # <<>>

\* C4: a turn whose controller is aborted while it is suspended in searchWeb
\* or in fetchSearchResultsContent has the abort delivered to that
\* suspension, and does not go from the search on to the page fetches.
C4_AbortReachesSearchAndFetch ==
    \A t \in TurnIds :
        obs[t].cancelledIn \in {"Searching", "Fetching"} =>
            /\ turn[t].pc \in {"Searching", "Fetching"} => AbortDelivered(t)
            /\ obs[t].cancelledIn = "Searching" => turn[t].pc # "Fetching"

\* C5: a finalized turn has appended one assistant message whose content is
\* the concatenation of the deltas of its own stream, whose sources are the
\* pages this turn fetched (none without a search), and the session upsert
\* was invoked.
C5_FinalMessageIsOwnStream ==
    \A t \in TurnIds :
        turn[t].pc = "Finalized" =>
            /\ obs[t].appended.role = "assistant"
            /\ obs[t].appended.content = turn[t].acc
            /\ obs[t].appended.sources =
                  IF turn[t].nResults > 0
                  THEN [owner |-> t,
                        n |-> Min(turn[t].nResults, MAX_FETCH_RESULTS)]
                  ELSE NoSources
            /\ obs[t].upserted

(***************************************************************************)
(* The specifications of searchWeb, parseDuckDuckGoHTML and                *)
(* fetchSearchResultsContent                                               *)
(***************************************************************************)
(***************************************************************************)
(* The stored conversations: the handlers that change conversationHistory  *)
(* and the session store, without the requests of a turn.  The two         *)
(* transactions of putSession (get and put, then the pruning) are one      *)
(* step.                                                                   *)
(***************************************************************************)
MaxEnters == 2
MaxDeletes == 1
LoadInstant == 2
MaxInstant == 3
LegacySessionId == 6

HistoryProviderKeys == {"openai", "ollama"}
HistoryInstants == LoadInstant..MaxInstant

AssistantEntry ==
    [role |-> "assistant", content |-> <<"answer">>, sources |-> NoSources]

\* The call putSession(session) that maybeSaveConversationToHistory makes
\* for the conversation conv, if it makes one.
PutOf(conv, sid) ==
    IF BuildsSession(conv)
    THEN [called |-> TRUE,
          session |-> buildSessionFromConversation(conv, sid),
          before |-> store]
    ELSE NoPut

\* store.clear() in the place of store.delete(id)
ClearsTheStore(st, id) == [i \in {} |-> st[i]]

\* deleteSessionById: the store after store.delete(id).
deleteSessionById(st, id) == [i \in DOMAIN st \ {id} |-> st[i]]

\* A click on the Delete button of an entry of the list.  When no entry is
\* left the list is closed and the conversation emptied.
DeleteSession(i) ==
    LET left == [j \in DOMAIN listSessions \ {i} |-> listSessions[j]]
    IN  /\ showingHistoryList
        /\ i \in DOMAIN listSessions
        /\ Len(deletions) < MaxDeletes
        /\ store' = deleteSessionById(store, listSessions[i].id)
        /\ deletions' = Append(deletions, listSessions[i].id)
        /\ listSessions' = left
        /\ showingHistoryList' = (DOMAIN left # {})
        /\ conversationHistory' =
               IF DOMAIN left = {} THEN <<>> ELSE conversationHistory
        /\ lastPut' = NoPut
        /\ boundId' = IF DOMAIN left = {} THEN 0 ELSE boundId
        /\ UNCHANGED <<currentAssistantMessage, isLLMMode, currentProvider,
                       providerAttr, webSearchEnabled, abortController, aborted,
                       currentSearchSources, currentSessionId, nextSessionId,
                       turns, turn, obs>>

\* The first save of a conversation binds it to the id it wrote.
BoundAfter(put) ==
    IF put.called /\ boundId = 0 THEN put.session.id ELSE boundId

\* Enter with a non-empty query, up to the call of sendToLLM.
EnterKeyPushes ==
    /\ isLLMMode
    /\ turns < MaxEnters
    /\ turns' = turns + 1
    /\ currentSessionId' = IF showingHistoryList THEN 0 ELSE currentSessionId
    /\ showingHistoryList' = FALSE
    /\ listSessions' = <<>>
    /\ conversationHistory' = Append(conversationHistory, UserMessage(turns + 1))
    /\ lastPut' = NoPut
    /\ boundId' = IF showingHistoryList THEN 0 ELSE boundId
    /\ UNCHANGED <<currentAssistantMessage, isLLMMode, currentProvider,
                   providerAttr, webSearchEnabled, abortController, aborted,
                   currentSearchSources, store, nextSessionId, turn, obs>>

\* sendToLLM once streamResponse has returned: the assistant entry is pushed
\* and the conversation is saved.
AnswerStored ==
    LET conv == Append(conversationHistory, AssistantEntry)
    IN  /\ isLLMMode
        /\ conversationHistory # <<>>
        /\ Last(conversationHistory).role = "user"
        /\ conversationHistory' = conv
        /\ store' = StoreAfterSave(conv, currentSessionId)
        /\ currentSessionId' = SessionIdAfterSave(conv, currentSessionId)
        /\ nextSessionId' = NextIdAfterSave(conv, currentSessionId)
        /\ lastPut' = PutOf(conv, currentSessionId)
        /\ boundId' = BoundAfter(PutOf(conv, currentSessionId))
        /\ UNCHANGED <<currentAssistantMessage, isLLMMode, currentProvider,
                       providerAttr, webSearchEnabled, abortController, aborted,
                       currentSearchSources, showingHistoryList, listSessions,
                       turns, turn, obs>>

HistoryRest ==
    UNCHANGED <<retryVars, streamVars, searchCache, now, calls, call,
                lastReturn, cacheOps, evicted, maxCacheSize, parseVars,
                fetchAllVars>>

HistoryFrame == HistoryRest /\ UNCHANGED deletions

HistoryNext ==
    \/ \E providerKey \in HistoryProviderKeys :
          Activate(providerKey) /\ lastPut' = NoPut /\ UNCHANGED boundId
          /\ HistoryFrame
    \/ /\ Deactivate
       /\ lastPut' = PutOf(conversationHistory, currentSessionId)
       /\ boundId' = 0
       /\ HistoryFrame
    \/ EnterKeyPushes /\ HistoryFrame
    \/ AnswerStored /\ HistoryFrame
    \/ ShowHistoryList /\ lastPut' = NoPut /\ UNCHANGED boundId /\ HistoryFrame
    \/ DismissHistoryList /\ lastPut' = NoPut /\ boundId' = 0 /\ HistoryFrame
    \/ \E i \in DOMAIN listSessions :
          /\ LoadSession(i)
          /\ lastPut' = NoPut
          /\ boundId' = listSessions[i].id
          /\ HistoryFrame
    \/ \E t \in HistoryInstants :
          /\ ClockAdvances(t)
          /\ lastPut' = NoPut
          /\ UNCHANGED <<retryVars, streamVars, currentAssistantMessage,
                         hostVars, parseVars, fetchAllVars, deletions,
                         boundId>>

\* The sessions that migrateFromFileIfNeeded puts in the store at startup,
\* as they are in the file: none when there is no file, else the sessions
\* that an earlier run left, as many as the cap, the first the oldest.
LegacyIds == LegacySessionId..(LegacySessionId + SessionCapacity - 1)

LegacySession(i) ==
    [id |-> i, providerKey |-> "ollama",
     createdAt |-> IF i = LegacySessionId THEN 1 ELSE LoadInstant,
     updatedAt |-> IF i = LegacySessionId THEN 1 ELSE LoadInstant,
     title |-> <<"old">>,
     messages |-> <<[role |-> "user", content |-> <<"old">>,
                     sources |-> NoSources]>>]

\* A file with one session more than the cap.
OverfullLegacyIds == LegacySessionId..(LegacySessionId + SessionCapacity)

OverfullStore == [i \in OverfullLegacyIds |-> LegacySession(i)]

MigratedStores == {<<>>, [i \in LegacyIds |-> LegacySession(i)]}

\* The module is loaded at an instant after the epoch; the store is as the
\* migration left it.
LoadedAtLoadInstant ==
    /\ FetchAtRest
    /\ StreamAtRest
    /\ ParseAtRest
    /\ FetchAllAtRest
    /\ searchCache = <<>>
    /\ now = LoadInstant
    /\ calls = 0
    /\ call = [c \in CallSlots |-> IdleCall]
    /\ lastReturn = NoReturn
    /\ cacheOps = <<>>
    /\ evicted = <<>>
    /\ maxCacheSize = CacheCapacity
    /\ currentAssistantMessage = <<>>
    /\ webSearchEnabled = FALSE
    /\ lastPut = NoPut
    /\ deletions = <<>>
    /\ boundId = 0
    /\ isLLMMode = FALSE
    /\ currentProvider = "null"
    /\ providerAttr = "null"
    /\ abortController = 0
    /\ aborted = [c \in TurnIds |-> FALSE]
    /\ conversationHistory = <<>>
    /\ currentSearchSources = NoSources
    /\ currentSessionId = 0
    /\ showingHistoryList = FALSE
    /\ listSessions = <<>>
    /\ nextSessionId = 1
    /\ turns = 0
    /\ turn = [t \in TurnIds |-> UnbornTurn]
    /\ obs = [t \in TurnIds |-> NothingObserved]

HistoryInit == LoadedAtLoadInstant /\ store \in MigratedStores

HistorySpec == HistoryInit /\ [][HistoryNext]_vars

(***************************************************************************)
(* The stored conversations with the Delete button of the history list,    *)
(* after a migration that may have put more sessions than the cap.  The    *)
(* steps are taken within one instant of the clock.                        *)
(***************************************************************************)
StoreNext ==
    \/ \E providerKey \in HistoryProviderKeys :
          Activate(providerKey) /\ lastPut' = NoPut /\ UNCHANGED boundId
          /\ HistoryFrame
    \/ /\ Deactivate
       /\ lastPut' = PutOf(conversationHistory, currentSessionId)
       /\ boundId' = 0
       /\ HistoryFrame
    \/ EnterKeyPushes /\ HistoryFrame
    \/ AnswerStored /\ HistoryFrame
    \/ ShowHistoryList /\ lastPut' = NoPut /\ UNCHANGED boundId /\ HistoryFrame
    \/ DismissHistoryList /\ lastPut' = NoPut /\ boundId' = 0 /\ HistoryFrame
    \/ \E i \in DOMAIN listSessions :
          /\ LoadSession(i)
          /\ lastPut' = NoPut
          /\ boundId' = listSessions[i].id
          /\ HistoryFrame
    \/ \E i \in DOMAIN listSessions : DeleteSession(i) /\ HistoryRest

StoreInit ==
    LoadedAtLoadInstant /\ store \in MigratedStores \cup {OverfullStore}

StoreSpec == StoreInit /\ [][StoreNext]_vars

SearchFrame ==
    UNCHANGED <<retryVars, streamVars, currentAssistantMessage, hostVars,
                parseVars, fetchAllVars, historyVars>>

SearchNext ==
    \/ \E c \in CallSlots, query \in Queries,
          providerKey \in SearchProviderKeys, hasKey \in BOOLEAN :
          SearchWebCalled(c, query, MAX_SEARCH_RESULTS, providerKey, hasKey)
          /\ SearchFrame
    \/ \E c \in CallSlots, outcome \in NativeOutcomes :
          NativeReturns(c, outcome) /\ SearchFrame
    \/ \E c \in CallSlots, outcome \in ScrapeOutcomes :
          ScrapeReturns(c, outcome) /\ SearchFrame
    \/ \E t \in Instants : ClockAdvances(t) /\ SearchFrame
    \/ \E b \in BOOLEAN : SetWebSearchPref(b) /\ SearchFrame

SearchInit ==
    /\ FetchAtRest
    /\ StreamAtRest
    /\ currentAssistantMessage = <<>>
    /\ ModuleLoaded
    /\ webSearchEnabled \in BOOLEAN
    /\ CacheAtRest
    /\ ParseAtRest
    /\ FetchAllAtRest

SearchSpec == SearchInit /\ [][SearchNext]_vars

(***************************************************************************)
(* searchWeb with the preference on and without the Ollama search key, the *)
(* cache one entry larger, so that a key can be written again while the    *)
(* cache holds another entry and is not full.                              *)
(***************************************************************************)
RefreshNext ==
    \/ \E c \in CallSlots, query \in Queries :
          SearchWebCalled(c, query, MAX_SEARCH_RESULTS, "openai", FALSE)
          /\ SearchFrame
    \/ \E c \in CallSlots, outcome \in ScrapeOutcomes :
          ScrapeReturns(c, outcome) /\ SearchFrame
    \/ \E t \in Instants : ClockAdvances(t) /\ SearchFrame

RefreshInit ==
    /\ FetchAtRest
    /\ StreamAtRest
    /\ currentAssistantMessage = <<>>
    /\ ModuleLoaded
    /\ webSearchEnabled = TRUE
    /\ searchCache = <<>>
    /\ now = 0
    /\ calls = 0
    /\ call = [c \in CallSlots |-> IdleCall]
    /\ lastReturn = NoReturn
    /\ cacheOps = <<>>
    /\ evicted = <<>>
    /\ maxCacheSize = CacheCapacity + 1
    /\ ParseAtRest
    /\ FetchAllAtRest

RefreshSpec == RefreshInit /\ [][RefreshNext]_vars

ParseFrame ==
    UNCHANGED <<retryVars, streamVars, globalVars, cacheVars, fetchAllVars,
                historyVars>>

ParseNext == ParseReturns /\ ParseFrame

ParseInit ==
    /\ FetchAtRest
    /\ StreamAtRest
    /\ GlobalsAtRest
    /\ CacheAtRest
    /\ FetchAllAtRest
    /\ pdPc = "called"
    /\ pdParsed \in SeqsUpTo(Elements, MaxElements)
    /\ pdLimit \in 1..MaxLimit
    /\ pdReturned = <<>>

ParseSpec == ParseInit /\ [][ParseNext]_vars

FetchAllFrame ==
    UNCHANGED <<retryVars, streamVars, globalVars, cacheVars, parseVars,
                historyVars>>

FetchAllNext ==
    \/ \E i \in 1..MAX_FETCH_RESULTS, outcome \in OllamaFetchOutcomes :
          OllamaFetchReturns(i, outcome) /\ FetchAllFrame
    \/ \E i \in 1..MAX_FETCH_RESULTS, outcome \in PageOutcomes :
          PageSettles(i, outcome) /\ FetchAllFrame
    \/ AllSettledWins /\ FetchAllFrame
    \/ DeadlineWins /\ FetchAllFrame

FetchAllInit ==
    /\ FetchAtRest
    /\ StreamAtRest
    /\ GlobalsAtRest
    /\ CacheAtRest
    /\ ParseAtRest
    /\ \E searchResults \in SearchResultLists,
          providerKey \in SearchProviderKeys, hasKey \in BOOLEAN :
          FetchAllCalled(searchResults, MAX_FETCH_RESULTS, providerKey, hasKey)

FetchAllSpec == FetchAllInit /\ [][FetchAllNext]_vars

\* The race is decided: the timer of timeoutPromise fires if nothing else
\* ends the race before.
FetchAllProgress ==
    \/ AllSettledWins /\ FetchAllFrame
    \/ DeadlineWins /\ FetchAllFrame

FetchAllFairSpec == FetchAllSpec /\ WF_vars(FetchAllProgress)

\* C14: a classifier call that fails (not by cancellation) does not fail the
\* turn: the turn composes its messages without a search context, without
\* having searched, and issues its chat-completion request.
C14_ClassifierFailureDoesNotBlock ==
    \A t \in TurnIds :
        obs[t].classifierFailed =>
            /\ turn[t].pc \in {"StreamFetch", "Streaming", "Finalized",
                               "Cancelled", "Failed"}
            /\ turn[t].nResults = 0
            /\ obs[t].chatRequested
            /\ obs[t].messagesToSend # <<>>
            /\ \A i \in DOMAIN obs[t].messagesToSend :
                  obs[t].messagesToSend[i] # SearchContextMessage(t)

C14_Witness ==
    \E t \in TurnIds :
        /\ obs[t].classifierFailed
        /\ turn[t].pc = "Finalized"
        /\ obs[t].messagesToSend = <<languageSystemMessage, toApiMessage(UserMessage(t))>>
        /\ obs[t].appended.content = <<"Hel", "lo">>

\* C15: searchWeb never raises into the turn and gives it a non-empty list or
\* null: a turn whose search found something has results to fetch, and a turn
\* whose native search and search page both gave nothing or failed composes
\* its messages without a search context and, unless it was cancelled before
\* it composed, issues its chat-completion request.
C15_SearchFailureAnswersFromKnowledge ==
    \A t \in TurnIds :
        /\ obs[t].error # SearchError
        /\ obs[t].search = "found" => turn[t].nResults > 0
        /\ obs[t].search = "nothing" =>
              /\ turn[t].pc \in {"StreamFetch", "Streaming", "Finalized",
                                 "Cancelled", "Failed"}
              /\ turn[t].nResults = 0
              /\ obs[t].messagesToSend # <<>>
              /\ \A i \in DOMAIN obs[t].messagesToSend :
                    obs[t].messagesToSend[i] # SearchContextMessage(t)
              /\ obs[t].cancelledIn \notin BeforeCompose => obs[t].chatRequested

C15_Witness ==
    \E t \in TurnIds :
        /\ obs[t].search = "nothing"
        /\ obs[t].cancelledIn = "none"
        /\ turn[t].pc = "Finalized"
        /\ obs[t].messagesToSend = <<languageSystemMessage, toApiMessage(UserMessage(t))>>
        /\ obs[t].appended.content = <<"Hel", "lo">>

\* The age, when the call started, of the entry that the latest ended call
\* found for its key, if it ended without a request.
SeenAge == lastReturn.seenAt - lastReturn.seen.timestamp

SawFreshEntry == lastReturn.seen # NoEntry /\ SeenAge < CACHE_TTL
SawStaleEntry == lastReturn.seen # NoEntry /\ SeenAge >= CACHE_TTL

\* What C16 says of the calls in lastReturn and call that started with the
\* preference as given.
CacheLookedUpFirst(enabledOnly) ==
    /\ \A c \in CallSlots :
          call[c].pc # "idle" => ~call[c].sawFresh
    /\ (lastReturn.how # "none" /\ (enabledOnly => lastReturn.enabled)) =>
          /\ SawFreshEntry =>
                /\ lastReturn.how = "returned"
                /\ lastReturn.returned = lastReturn.seen.results
                /\ lastReturn.returned # NoResults
                /\ lastReturn.requests = 0
          /\ SawStaleEntry =>
                /\ lastReturn.requests >= 1
                /\ lastReturn.returned # lastReturn.seen.results
          /\ lastReturn.returned # NoResults =>
                lastReturn.at - lastReturn.returned.at < CACHE_TTL

\* C16 (as stated): searchWeb looks in the cache first: a call that finds an
\* entry for its key query:limit younger than the TTL returns the results of
\* that entry and makes no network request; an entry of age TTL or more is
\* never returned and a search is run.
C16_CacheLookedUpFirst == CacheLookedUpFirst(FALSE)

\* C16 (amended): the same, of the calls made while the web-search preference
\* is on; with the preference off searchWeb returns null before it looks in
\* the cache.
C16_CacheLookedUpFirstWhenEnabled ==
    /\ CacheLookedUpFirst(TRUE)
    /\ (lastReturn.how # "none" /\ ~lastReturn.enabled) =>
          lastReturn.returned = NoResults /\ lastReturn.requests = 0

\* An entry one millisecond short of the TTL is returned without a request.
C16_Witness ==
    /\ lastReturn.enabled
    /\ SawFreshEntry
    /\ SeenAge = CACHE_TTL - 1
    /\ lastReturn.returned = lastReturn.seen.results
    /\ lastReturn.requests = 0

\* The reference of C17: all results the elements parse to, the first of each
\* URL, ranked by descending snippet length, the first limit of them.
ParsedResults == SelectSeq(pdParsed, LAMBDA e : e # NoElement)

RECURSIVE DedupeByUrl(_)
DedupeByUrl(results) ==
    IF results = <<>> THEN <<>>
    ELSE LET front == DedupeByUrl(SubSeq(results, 1, Len(results) - 1))
         IN  IF \E j \in DOMAIN front : front[j].url = Last(results).url
             THEN front
             ELSE Append(front, Last(results))

RankedTopLimit == Slice(SortBySnippet(DedupeByUrl(ParsedResults)), pdLimit)

UrlAndSnippet(results) ==
    [i \in DOMAIN results |->
        [url |-> results[i].url, snippet |-> results[i].snippet]]

\* The deduplicated results whose URL the returned list does not hold.
DroppedResults ==
    LET distinct == DedupeByUrl(ParsedResults)
    IN  {distinct[i] : i \in {j \in DOMAIN distinct :
            \A k \in DOMAIN pdReturned : pdReturned[k].url # distinct[j].url}}

\* C17: the list parseDuckDuckGoHTML returns is the reference list: it has
\* no URL twice, at most limit items, snippet lengths that do not increase,
\* and no dropped result has a longer snippet than a kept one.
C17_ScrapeListIsRankedTopLimit ==
    pdPc = "returned" =>
        /\ UrlAndSnippet(pdReturned) = RankedTopLimit
        /\ \A i, j \in DOMAIN pdReturned :
              i # j => pdReturned[i].url # pdReturned[j].url
        /\ Len(pdReturned) <= pdLimit
        /\ \A i, j \in DOMAIN pdReturned :
              i < j => pdReturned[i].snippet >= pdReturned[j].snippet
        /\ \A d \in DroppedResults : \A k \in DOMAIN pdReturned :
              d.snippet <= pdReturned[k].snippet

\* The keys the cache holds, and the keys handed to searchCache.set, in order.
CachedKeys == [i \in DOMAIN searchCache |-> searchCache[i].key]

InsertedKeys ==
    LET sets == SelectSeq(cacheOps, LAMBDA o : o.op = "set")
    IN  [i \in DOMAIN sets |-> sets[i].key]

AllDistinct(keys) == \A i, j \in DOMAIN keys : i # j => keys[i] # keys[j]

\* C18: after any sequence of searches the cache holds at most the capacity
\* (MAX_CACHE_SIZE) of entries, no key twice.
C18_CacheSizeBounded ==
    /\ Len(searchCache) <= CacheCapacity
    /\ AllDistinct(CachedKeys)

\* The cache is full after an insertion that evicted a key.
C18_Witness ==
    /\ Len(searchCache) = CacheCapacity
    /\ Len(InsertedKeys) > CacheCapacity
    /\ evicted # <<>>

FetchAllReturnedShape ==
    faPc = "returned" =>
        /\ Len(faReturned) = Min(Len(faSearchResults), faMaxResults)
        /\ \A i \in DOMAIN faReturned :
              /\ faReturned[i].url = faSearchResults[i].url
              /\ faReturned[i].index = i
              /\ faReturned[i].content = "page" => faSettled[i] = "content"

\* C20: whatever fetch promises are fulfilled, with a page or without, or
\* still pending when the overall deadline passes, fetchSearchResultsContent
\* returns, and what it returns is exactly min(len(results), maxResults)
\* items in the input order.
C20_FetchAllAlwaysReturnsEveryItem ==
    /\ []FetchAllReturnedShape
    /\ <>(faPc = "returned")

\* The deadline passes with one page fetched, one failed and one pending, of
\* more results than maxResults.
C20_Witness ==
    /\ faPc = "returned"
    /\ Len(faSearchResults) > faMaxResults
    /\ faSettled = <<"content", "failed", "pending">>
    /\ Len(faReturned) = faMaxResults
    /\ \A i \in DOMAIN faReturned : faReturned[i].content = "snippet"

\* The race of fetchSearchResultsContent was won by timeoutPromise: the
\* function has returned while a fetch promise was still pending.
DeadlineWon ==
    /\ faPc = "returned"
    /\ \E i \in DOMAIN faSettled : faSettled[i] = "pending"

\* C21: when the overall deadline wins the race, the items whose fetch is
\* still pending have their snippet as content, and the items whose fetch
\* had completed with the content of the page keep that content.
C21_DeadlineKeepsCompletedContent ==
    DeadlineWon =>
        \A i \in DOMAIN faReturned :
            faReturned[i].content =
                IF faSettled[i] = "content" THEN "page" ELSE "snippet"

\* C22: a failed or timed-out page fetch affects only its own item: in the
\* list fetchSearchResultsContent returns, every item whose fetch failed or
\* timed out has its snippet as content and every item whose fetch gave the
\* content of the page has that content.
C22_FailureAffectsOnlyItsItem ==
    faPc = "returned" =>
        \A i \in DOMAIN faReturned :
            /\ faSettled[i] = "content" => faReturned[i].content = "page"
            /\ faSettled[i] \in {"failed", "timedOut"} =>
                   faReturned[i].content = "snippet"

\* Turn t has started with the web search switched off, or for a provider
\* that has no web search.
StartedWithoutSearch(t) ==
    /\ turn[t].pc # "unborn"
    /\ ~webSearchEnabled \/ ~SupportsWebSearch(obs[t].providerKey)

\* C23: a turn started with the web search disabled, or for a provider
\* without search support, goes straight to composing: it is never in
\* Classifying, Searching or Fetching, it gets no verdict, no search result
\* and no sources, it issues its chat-completion request, and for a first
\* message it sends exactly the language instruction and the user message.
C23_DisabledSearchGoesStraightToComposing ==
    \A t \in TurnIds :
        StartedWithoutSearch(t) =>
            /\ turn[t].pc \notin BeforeCompose
            /\ obs[t].verdict = "none"
            /\ ~obs[t].classifierFailed
            /\ obs[t].search = "none"
            /\ obs[t].cancelledIn \notin BeforeCompose
            /\ currentSearchSources.owner # t
            /\ obs[t].chatRequested
            /\ Len(obs[t].startConv) = 1 =>
                   obs[t].messagesToSend =
                       <<languageSystemMessage,
                         [role |-> "user", content |-> <<QueryOf(t)>>]>>

\* With the web search disabled a first message has been answered, and a
\* second turn on the same conversation has sent its request.
C23_Witness ==
    /\ ~webSearchEnabled
    /\ turn[1].pc = "Finalized"
    /\ Len(obs[1].startConv) = 1
    /\ Len(obs[1].messagesToSend) = 2
    /\ turn[2].pc = "StreamFetch"
    /\ Len(obs[2].messagesToSend) = 4

\* Turn t has called searchWeb, and fetchSearchResultsContent.
SearchInvoked(t) ==
    turn[t].pc \in {"Searching", "Fetching"} \/ obs[t].search # "none"

FetchInvoked(t) ==
    turn[t].pc = "Fetching" \/ currentSearchSources.owner = t

\* The message of turn t was a follow-up: the conversation held more than
\* that message when the turn started.
IsFollowUpTurn(t) == Len(obs[t].startConv) > 1

\* C24: a turn calls searchWeb only after queryNeedsWebSearchLLM has
\* returned true in that turn, and fetchSearchResultsContent only after
\* that search has returned at least one result; for a follow-up message
\* the classifier returns false without a request, so a follow-up never
\* calls searchWeb.
C24_PipelineStepsGuardedInOrder ==
    \A t \in TurnIds :
        /\ SearchInvoked(t) => obs[t].verdict = "search"
        /\ FetchInvoked(t) =>
              /\ obs[t].verdict = "search"
              /\ obs[t].search = "found"
              /\ turn[t].nResults >= 1
        /\ IsFollowUpTurn(t) =>
              /\ ~obs[t].classifierAsked
              /\ ~obs[t].classifierFailed
              /\ obs[t].verdict # "search"
              /\ ~SearchInvoked(t)
              /\ ~FetchInvoked(t)

\* A first message was classified as SEARCH, searched, fetched and answered
\* with sources; the follow-up after it was sent without a classifier
\* request and without a search.
C24_Witness ==
    /\ turn[1].pc = "Finalized"
    /\ obs[1].classifierAsked
    /\ obs[1].verdict = "search"
    /\ obs[1].search = "found"
    /\ obs[1].appended.sources.owner = 1
    /\ turn[2].pc = "StreamFetch"
    /\ IsFollowUpTurn(2)
    /\ obs[2].verdict = "noSearch"
    /\ obs[2].chatRequested

\* The list a turn that started with the conversation startConv is to send:
\* the language instruction, the turns before the user message, the search
\* context when there is one, and the user message of the turn.
OutboundFor(t, hasContext) ==
    LET conv == obs[t].startConv
    IN  <<languageSystemMessage>>
        \o ApiMessages(SubSeq(conv, 1, Len(conv) - 1))
        \o (IF hasContext THEN <<SearchContextMessage(t)>> ELSE <<>>)
        \o <<[role |-> "user", content |-> <<QueryOf(t)>>]>>

\* Turn t has built its outbound list and issued its request with it.
Composed(t) == obs[t].chatRequested

\* C25: the outbound list of every turn that composes one starts with the
\* language instruction, ends with the user message that started the turn,
\* holds the prior turns in order in between and, when the turn has search
\* context, the synthesized system message right before that user message.
C25_OutboundListShape ==
    \A t \in TurnIds :
        Composed(t) =>
            obs[t].messagesToSend = OutboundFor(t, obs[t].search = "found")

\* The class of a terminal error of the chat-completion request, by what
\* ended it: the abort of its signal, the status of the last response, a
\* connection failure of fetch, or anything else.
ErrorClass(err) ==
    CASE err.name = "AbortError" -> "cancelled"
      [] err.status \in {401, 403} -> "invalid-credentials"
      [] err.status = 429 -> "rate-limited"
      [] err.status >= 500 -> "temporarily-unavailable"
      [] err.status >= 400 -> "bad-request"
      [] err.name = "TypeError" -> "connection-problem"
      [] OTHER -> "generic-failure"

\* The text sendToLLM shows for each class.
TextOfClass(class) ==
    CASE class = "cancelled" -> "Request cancelled"
      [] class = "invalid-credentials" -> "Invalid API key"
      [] class = "rate-limited" -> "Rate limit exceeded"
      [] class = "temporarily-unavailable" -> "Service temporarily unavailable"
      [] class = "bad-request" -> "Request failed"
      [] class = "connection-problem" -> "Connection error"
      [] OTHER -> "Something went wrong"

\* C26: whatever error ends fetchWithRetry, sendToLLM shows the text of its
\* class: cancelled for an abort, invalid credentials for 401 and 403, rate
\* limited for an exhausted 429, temporarily unavailable for an exhausted
\* 5xx, bad request for every other 4xx, connection problem for an
\* exhausted connection failure, generic failure for anything else.
C26_ErrorTaxonomy ==
    frPc = "thrown" => UserFacingText(frResult) = TextOfClass(ErrorClass(frResult))

\* A turn that has ended in Failed has appended no assistant message and
\* has not invoked the session upsert.
FailedLeftNothing ==
    \A t \in TurnIds :
        turn[t].pc = "Failed" =>
            obs[t].appended = NoMessage /\ ~obs[t].upserted

\* The step in which a turn fails changes neither the conversation nor the
\* stored sessions nor the mode.
FailingStepChangesNothing ==
    \A t \in TurnIds :
        turn[t].pc # "Failed" /\ turn'[t].pc = "Failed" =>
            /\ conversationHistory' = conversationHistory
            /\ store' = store
            /\ currentSessionId' = currentSessionId
            /\ isLLMMode' = isLLMMode

\* C27: a turn that ends in Failed appends no assistant message and
\* performs no session upsert, and it leaves the conversation as it was, so
\* that a new turn on the same conversation can run to Finalized.
C27_FailedTurnLeavesConversationUsable ==
    /\ []FailedLeftNothing
    /\ [][FailingStepChangesNothing]_vars

\* The chat-completion request of the first turn has failed with a 503, and
\* a second turn on the same conversation has been answered and stored.
C27_Witness ==
    /\ turn[1].pc = "Failed"
    /\ obs[1].error = [name |-> "Error", status |-> 503]
    /\ obs[1].cancelledIn = "none"
    /\ turn[2].pc = "Finalized"
    /\ obs[2].upserted
    /\ Len(conversationHistory) = 3
    /\ conversationHistory[1].content = <<QueryOf(1)>>
    /\ conversationHistory[2].content = <<QueryOf(2)>>
    /\ conversationHistory[3] = obs[2].appended

\* The session that the last call of putSession wrote was already stored.
SecondPut ==
    lastPut.called /\ lastPut.session.id \in DOMAIN lastPut.before

\* C28: a call of putSession with an id that is already stored leaves one
\* stored session with that id, whose updatedAt and messages are those of this
\* call and whose createdAt is the one that was stored before it.
C28_SecondPutKeepsCreatedAt ==
    SecondPut =>
        LET id == lastPut.session.id
        IN  /\ id \in DOMAIN store
            /\ store[id].id = id
            /\ store[id].updatedAt = lastPut.session.updatedAt
            /\ store[id].messages = lastPut.session.messages
            /\ store[id].createdAt = lastPut.before[id].createdAt

\* A second write, at a later instant and with more messages than the first.
C28_Witness ==
    /\ SecondPut
    /\ store[lastPut.session.id].createdAt < store[lastPut.session.id].updatedAt
    /\ store[lastPut.session.id].messages
           # lastPut.before[lastPut.session.id].messages
    /\ lastPut.before[lastPut.session.id].updatedAt
           < store[lastPut.session.id].updatedAt

\* C29: the title of a stored session is fixed at its first write: every
\* later call of putSession with the same id leaves the stored title as it
\* was.
C29_TitleFixedAtFirstWrite ==
    SecondPut =>
        /\ lastPut.session.id \in DOMAIN store
        /\ store[lastPut.session.id].title
               = lastPut.before[lastPut.session.id].title

\* The sessions of the provider once the put of the last call is done and
\* before its pruning, and the updatedAt each of them has then.
IdsAfterPut ==
    ProviderSessionIds(lastPut.before, lastPut.session.providerKey)
        \cup {lastPut.session.id}

UpdatedAtAfterPut(i) ==
    IF i = lastPut.session.id
    THEN lastPut.session.updatedAt
    ELSE lastPut.before[i].updatedAt

KeptIds == ProviderSessionIds(store, lastPut.session.providerKey)

\* C30: when putSession is done the provider of the written session has at
\* most the cap of stored sessions, the removed ones are exactly those beyond
\* the cap, and no removed session was updated after a kept one.
C30_PruneKeepsMostRecent ==
    lastPut.called =>
        /\ Cardinality(KeptIds) <= SessionCapacity
        /\ KeptIds \subseteq IdsAfterPut
        /\ Cardinality(KeptIds)
               = Min(Cardinality(IdsAfterPut), SessionCapacity)
        /\ \A r \in IdsAfterPut \ KeptIds :
              \A k \in KeptIds : UpdatedAtAfterPut(r) <= store[k].updatedAt
        /\ \A i \in DOMAIN lastPut.before :
              lastPut.before[i].providerKey # lastPut.session.providerKey
                  => i \in DOMAIN store /\ store[i] = lastPut.before[i]

\* A write that made the pruning remove a session that was updated before
\* every kept one, with a session of another provider in the store.
C30_Witness ==
    /\ lastPut.called
    /\ \E r \in IdsAfterPut \ KeptIds :
          \A k \in KeptIds : UpdatedAtAfterPut(r) < store[k].updatedAt
    /\ \E i \in DOMAIN store :
          store[i].providerKey # lastPut.session.providerKey

\* C31: in every state between store operations no provider has more stored
\* sessions than the cap, whatever upserts, deletions and migration came
\* before.
C31_ProviderCountCapped ==
    \A providerKey \in HistoryProviderKeys :
        Cardinality(ProviderSessionIds(store, providerKey)) <= SessionCapacity

\* A step that saves the live conversation, once it has been saved or loaded
\* under an id, writes that id.
SaveWritesBoundId ==
    lastPut'.called /\ boundId # 0 => lastPut'.session.id = boundId

\* C32: all the saves of a conversation, after an answer and on deactivation,
\* write the same session id, and after a stored session is loaded every
\* later save writes the id of that session and creates no other.
C32_OneSessionPerConversation == [][SaveWritesBoundId]_vars

\* A migrated session was loaded, a question was asked and answered, and the
\* save wrote the loaded id with the longer conversation.
C32_Witness ==
    /\ lastPut.called
    /\ isLLMMode
    /\ boundId = lastPut.session.id
    /\ boundId \in LegacyIds
    /\ boundId \in DOMAIN lastPut.before
    /\ Len(lastPut.session.messages) > Len(lastPut.before[boundId].messages)
    /\ DOMAIN store = DOMAIN lastPut.before

Deleted == {deletions[k] : k \in DOMAIN deletions}

\* C33: a session removed with deleteSessionById stays removed: no later
\* save of the live conversation writes a session with that id.
C33_DeletedSessionStaysDeleted ==
    lastPut.called => lastPut.session.id \notin Deleted

\* The key handler of Enter runs while the history list is shown.
EnterWhileListShown == turns' = turns + 1 /\ showingHistoryList

\* C34: a message sent while the history list is shown starts a new
\* conversation: the conversation is then that user message alone, it is bound
\* to no session id, and the turn takes the message as a first message, not
\* as a follow-up.
C34_EnterOnListStartsNewConversation ==
    [][EnterWhileListShown =>
          /\ conversationHistory' = <<UserMessage(turns')>>
          /\ currentSessionId' = 0
          /\ Len(obs'[turns'].startConv) <= 1]_vars

\* The conversation turn t started with holds an assistant message before
\* its last message, the user message of the turn.
HasEarlierExchange(t) ==
    \E k \in 1..(Len(obs[t].startConv) - 1) :
        obs[t].startConv[k].role = "assistant"

\* Turn t has got the answer of queryNeedsWebSearchLLM.
Classified(t) == obs[t].verdict # "none"

\* C35: the classifier is called with isFollowUp true exactly when the
\* conversation holds a completed earlier exchange; the retry of a first
\* question whose turn failed or was cancelled is classified as a first
\* message.
C35_FollowUpIffEarlierExchange ==
    \A t \in TurnIds :
        Classified(t) => (~obs[t].classifierAsked <=> HasEarlierExchange(t))

\* The step is a call of cacheSet that has removed a key from the cache.
Evicts == Len(evicted') > Len(evicted)

\* The timestamp of the entry of key in the cache.
TimestampOf(key) == MapGet(searchCache, key).timestamp

\* C36: the entry removed by an eviction is the one with the smallest
\* timestamp among the entries the cache holds, also after a stale key has
\* been written again with fresh results.
C36_EvictionRemovesOldestTimestamp ==
    [][Evicts =>
          \A i \in DOMAIN searchCache :
              TimestampOf(evicted'[Len(evicted')]) <= searchCache[i].timestamp]_vars

\* The step is a call of cacheSet for a key that the cache holds.
Rewrites ==
    /\ Len(cacheOps') = Len(cacheOps) + 1
    /\ cacheOps'[Len(cacheOps')].op = "set"
    /\ MapHas(searchCache, cacheOps'[Len(cacheOps')].key)

\* C37: cacheSet for a key that is already in the cache, a stale entry being
\* refreshed, leaves every other key in the cache with its entry, also when
\* the cache is full.
C37_RewriteKeepsOtherKeys ==
    [][Rewrites =>
          \A i \in DOMAIN searchCache :
              searchCache[i].key # cacheOps'[Len(cacheOps')].key =>
                  /\ MapHas(searchCache', searchCache[i].key)
                  /\ MapGet(searchCache', searchCache[i].key)
                         = MapGet(searchCache, searchCache[i].key)]_vars

(***************************************************************************)
(* The end of the byte stream.  A server, or a proxy in front of it, may   *)
(* close the body after a record without a final newline: the payloads of  *)
(* this specification are those of StreamSpec, with and without their last *)
(* newline.                                                                *)
(***************************************************************************)
WithoutLastNewline(p) == SubSeq(p, 1, Len(p) - 1)

EndOfStreamPayloads(ollama) ==
    Payloads(ollama) \cup {WithoutLastNewline(p) : p \in Payloads(ollama) \ {<<>>}}

EndOfStreamInit ==
    /\ FetchAtRest
    /\ WebAtRest
    /\ stPc = "reading"
    /\ isOllama \in BOOLEAN
    /\ payload \in EndOfStreamPayloads(isOllama)
    /\ pos = 0
    /\ buffer = <<>>
    /\ accumulatedText = <<>>
    /\ renderPending = FALSE
    /\ rendered = <<>>
    /\ finalRenders = 0
    /\ deltas = <<>>
    /\ heldBack = FALSE
    /\ currentAssistantMessage \in {<<>>, <<"lo">>}
    /\ webSearchEnabled = FALSE
    /\ ModuleLoaded

EndOfStreamSpec == EndOfStreamInit /\ [][StreamNext]_vars

\* Every line of the payload, the last one included whether or not a newline
\* follows it, decoded by a decoder that starts from nothing.
DecodedEveryRecord ==
    ProcessLines(SplitLines(payload),
                 [acc |-> <<>>, cam |-> <<>>, pending |-> FALSE, rendered |-> <<>>,
                  finals |-> 0, deltas |-> <<>>, finished |-> FALSE,
                  threw |-> FALSE],
                 isOllama)

\* C38: once streamResponse has returned, the accumulated text holds the
\* content of every record received up to the terminal marker or the end of
\* the byte stream, a last line without a newline included.
C38_LastLineDecodedAtEnd ==
    stPc = "returned" => accumulatedText = DecodedEveryRecord.acc

\* The ids stored before or after a step, and whether a step left the
\* session of an id as it was.
IdsAcrossStep == DOMAIN store \cup DOMAIN store'

LeftAlone(i) == i \in DOMAIN store /\ i \in DOMAIN store' /\ store'[i] = store[i]

OfOtherProvider(i, providerKey) ==
    \/ i \in DOMAIN store /\ store[i].providerKey # providerKey
    \/ i \in DOMAIN store' /\ store'[i].providerKey # providerKey

\* C39: a step that calls putSession leaves every session that is not the
\* written one and belongs to another provider as it was, adding none; a step
\* that calls deleteSessionById(id) leaves every session but that of id as it
\* was.
C39_StoreOperationsAreLocal ==
    [][/\ lastPut'.called =>
              \A i \in IdsAcrossStep \ {lastPut'.session.id} :
                  OfOtherProvider(i, lastPut'.session.providerKey) => LeftAlone(i)
       /\ Len(deletions') > Len(deletions) =>
              \A i \in IdsAcrossStep \ {deletions'[Len(deletions')]} :
                  LeftAlone(i)]_vars

\* After a deletion that left other sessions in the store, a write changed
\* the store while it held a session of another provider.
C39_Witness ==
    /\ deletions # <<>>
    /\ lastPut.called
    /\ store # lastPut.before
    /\ \E i \in DOMAIN lastPut.before :
          /\ i # lastPut.session.id
          /\ lastPut.before[i].providerKey # lastPut.session.providerKey

\* The steps of searchWeb: one that starts a call, one in which a call that
\* ran a search ends, and one that writes the cache.
StartsCall == calls' = calls + 1

SearchEnds == \E c \in CallSlots : call[c].pc # "idle" /\ call'[c].pc = "idle"

Stores ==
    /\ Len(cacheOps') > Len(cacheOps)
    /\ cacheOps'[Len(cacheOps')].op = "set"

\* The key of the call that a step starts.
StartedKey ==
    IF call' = call
    THEN lastReturn'.cacheKey
    ELSE LET c == CHOOSE d \in CallSlots : call'[d] # call[d]
         IN  call'[c].cacheKey

GoesToTheNetwork == call' # call

\* A call starts with the preference on, when no other call is in flight and
\* the latest call to end was for the same key and returned null.
SearchAgainAfterNull ==
    /\ StartsCall
    /\ webSearchEnabled
    /\ \A c \in CallSlots : call[c].pc = "idle"
    /\ lastReturn.how = "returned"
    /\ lastReturn.returned = NoResults
    /\ StartedKey = lastReturn.cacheKey

\* A step writes the cache exactly when a search of searchWeb ends with a
\* non-empty list, and then the entry of its key holds that list; every other
\* step leaves the cache as it is.
OnlyFoundResultsStored ==
    /\ Stores <=> (SearchEnds /\ lastReturn'.returned # NoResults)
    /\ Stores =>
          MapGet(searchCache', lastReturn'.cacheKey)
              = [results |-> lastReturn'.returned, timestamp |-> now]
    /\ ~Stores => searchCache' = searchCache

\* C40 (as stated): only the searches that found something are cached: a call
\* of searchWeb writes the cache exactly when its search returns a non-empty
\* list, a call that returns null, with the preference on or off, leaves the
\* cache unchanged, and the next search for the same query and limit goes to
\* the network again.
C40_OnlySuccessfulSearchesCached ==
    [][/\ OnlyFoundResultsStored
       /\ SearchAgainAfterNull => GoesToTheNetwork]_vars

\* C40 (amended): the same, but the next search for the same query and limit
\* goes to the network exactly when the cache holds no entry younger than the
\* TTL for the key; an entry stored before the preference was turned off, or
\* by another call for the same key, answers it.
C40_NullIsNeverCached ==
    [][/\ OnlyFoundResultsStored
       /\ SearchAgainAfterNull =>
             (GoesToTheNetwork <=>
                 \/ ~MapHas(searchCache, lastReturn.cacheKey)
                 \/ now - MapGet(searchCache, lastReturn.cacheKey).timestamp
                        >= CACHE_TTL)]_vars

\* A search that went to the network has returned null, the cache holds
\* entries but none for its key, and a search for the same key is in flight.
C40_Witness ==
    /\ lastReturn.how = "returned"
    /\ lastReturn.returned = NoResults
    /\ lastReturn.requests >= 1
    /\ searchCache # <<>>
    /\ ~MapHas(searchCache, lastReturn.cacheKey)
    /\ call[1].pc # "idle"
    /\ call[1].cacheKey = lastReturn.cacheKey
    /\ call[2].pc = "idle"
====
